---- MODULE Spec2Model ----
(***************************************************************************)
(* Voice recorder firmware (ESP32): the schedulers of the Test 10          *)
(* end-to-end sketch, of the Test 7 state-machine sketch and of the main   *)
(* firmware, the debounced voice activity detector of Test 10, and the     *)
(* upload queue of wifi_sync.cpp over the recordings directory of          *)
(* sd_manager.cpp.                                                         *)
(*                                                                         *)
(* Time.  Every timestamp T the code keeps (lastUploadCheck, ...) is held  *)
(* as its age millis() - T, which is the only way the code reads it.  An   *)
(* age saturates one past the threshold the code compares it with, so the  *)
(* comparison "millis() - T > K" is exact.  The clock is read once per     *)
(* loop iteration and moves by one of TickDeltas between two iterations.   *)
(* A state of the model is the state of the sketch between two iterations  *)
(* of loop(); the functions of the sketch are operators from the state     *)
(* record before the call to the state record after it.                    *)
(***************************************************************************)
EXTENDS Integers, Sequences, FiniteSets, TLC

VARIABLES
  currentState,           \* system_state_t currentState
  stateStartTimeAge,      \* millis() - stateStartTime
  lastUploadCheckAge,     \* millis() - lastUploadCheck
  lastMemoryCheckAge,     \* millis() - lastMemoryCheck
  lastWiFiRetryAge,       \* millis() - lastWiFiRetry
  wifiConnected,          \* bool wifiConnected
  wifiStatus,             \* WiFi.status() == WL_CONNECTED (the radio)
  errorCount,             \* int errorCount
  initStep,               \* handleInitState: static int initStep
  recordingActive,        \* handleRecordingState: static bool recordingActive
  recordingFileOpen,      \* File recordingFile is an open file
  recordingStartTimeAge,  \* millis() - recordingStartTime
  samplesRecorded,        \* handleRecordingState: static int samplesRecorded
  uploadSessionActive,    \* handleUploadingState: static bool
  filesUploaded,          \* handleUploadingState: static int filesUploaded
  errorStartTimeAge,      \* handleErrorState: millis() - errorStartTime, or Unset
  consecutiveDetections,  \* performAdvancedVAD: static int
  vadTriggerCount,        \* int vadTriggerCount
  happyPath,              \* environment: from now on every subsystem call succeeds
  loopBeat,               \* history: flipped by every call of loop() on the happy path
  sinceErrorEntry,        \* history: time since the last transition into ERROR
  errorBumps,             \* history: increments of errorCount for this stay in ERROR
  lastRecovery,           \* history: time spent in ERROR when the last tick left it for INIT
  uploadCheckFrom,        \* history: the state the upload check of the last tick left, or "none"
  entryDetections,        \* history: consecutiveDetections when the handler of the last tick entered LISTENING, or Unset
  rawHistory,             \* history: raw detections of the conclusive VAD frames
  vadResults,             \* history: what performAdvancedVAD returned for them
  pending,                \* the .wav files under /recordings
  uploaded,               \* the files moved to /uploaded
  uploadRetryCount,       \* static int uploadRetryCount (wifi_sync.cpp)
  transfers,              \* history: successful transfers of each file
  failures,               \* history: failed upload attempts of each file
  afterLoss,              \* history: attempts of the last drain made after the radio dropped
  batchUploads,           \* history: files the last drain uploaded
  errorCode,              \* int errorCode (Test 7)
  sdInitialized,          \* static bool sdInitialized of handleInitState (Test 7)
  audioInitialized,       \* static bool audioInitialized
  wifiInitialized,        \* static bool wifiInitialized
  recordingCount,         \* int recordingCount (Test 7)
  nonWifiFault,           \* history: a storage, audio or server call failed, or a command was typed
  writeFailed,            \* history: a write of sample bytes failed in the last tick (Test 7)
  initFailureCode,        \* history: errorCode after the last storage / audio failure of INIT
  lastFile,               \* history: header and data bytes of the last recording file (Test 7)
  usbConnected,           \* bool usbConnected (main firmware)
  ledMode,                \* static led_mode_t currentMode (led_control.cpp)
  vadInitialized,         \* static bool vadInitialized (voice_detection.cpp)
  silenceStartTimeAge,    \* millis() - silenceStartTime (main firmware), Unset when 0
  lastUploadAttemptAge,   \* millis() - lastUploadAttempt (wifi_sync.cpp)
  clockPhase,             \* millis() % 10000 while the main firmware is in ERROR
  recoveryAttempted,      \* history: the last call of handleErrorState called initializeSystem
  quietAge,               \* history: time since the first of the silent frames in a row, or Unset
  stoppedOnSilence,       \* history: the last call of loop() stopped the recording on silence
  noiseFloor,             \* static float noiseFloor (voice_detection.cpp), in hundredths
  currentAudioLevel,      \* static float currentAudioLevel, in hundredths
  lastNoiseUpdateAge,     \* millis() - lastNoiseUpdate
  vadCalls,               \* history: calls made to voice_detection.cpp
  lastDetect,             \* history: the last call, its frame, the floor before it, its result
  bytesWritten,           \* static uint32_t bytesWritten (audio_recorder.cpp)
  sinkBytes,              \* the sample bytes the card took for the file of the session
  recorderCalls,          \* history: calls made to audio_recorder.cpp
  lastRecorderCall        \* history: the last call, its input, its result, the statics before it

vars == <<currentState, stateStartTimeAge, lastUploadCheckAge,
          lastMemoryCheckAge, lastWiFiRetryAge, wifiConnected, wifiStatus,
          errorCount, initStep, recordingActive, recordingFileOpen,
          recordingStartTimeAge, samplesRecorded, uploadSessionActive,
          filesUploaded, errorStartTimeAge, consecutiveDetections,
          vadTriggerCount, happyPath, loopBeat, sinceErrorEntry, errorBumps, lastRecovery,
          uploadCheckFrom, entryDetections,
          rawHistory, vadResults, pending, uploaded, uploadRetryCount,
          transfers, failures, afterLoss, batchUploads, errorCode, sdInitialized,
          audioInitialized,
          wifiInitialized, recordingCount, nonWifiFault, writeFailed, initFailureCode,
          lastFile, usbConnected,
          ledMode,
          vadInitialized, silenceStartTimeAge, lastUploadAttemptAge, clockPhase,
          recoveryAttempted, quietAge, stoppedOnSilence,
          noiseFloor, currentAudioLevel, lastNoiseUpdateAge, vadCalls, lastDetect,
          bytesWritten, sinkBytes, recorderCalls, lastRecorderCall>>

\* the variables by the part of the repository that owns them
t10History == <<sinceErrorEntry, errorBumps, lastRecovery, uploadCheckFrom,
                entryDetections>>
vadHistory == <<rawHistory, vadResults>>
uploadHistory == <<transfers, failures, afterLoss, batchUploads>>
t7Only == <<errorCode, audioInitialized, wifiInitialized, nonWifiFault, writeFailed,
            initFailureCode, lastFile>>
mainOnly == <<usbConnected, ledMode, vadInitialized, silenceStartTimeAge,
              lastUploadAttemptAge, clockPhase, recoveryAttempted, quietAge,
              stoppedOnSilence>>
noiseVars == <<noiseFloor, currentAudioLevel, lastNoiseUpdateAge, vadCalls, lastDetect>>
recorderVars == <<bytesWritten, sinkBytes, recorderCalls, lastRecorderCall>>

-----------------------------------------------------------------------------
(* Program constants *)

SAMPLE_RATE == 16000
RECORD_DURATION == 5
TOTAL_SAMPLES == RECORD_DURATION * SAMPLE_RATE
RMS_THRESHOLD == 50
VARIANCE_MIN == 5000
VARIANCE_MAX == 100000
VAD_SAMPLES == 512
VAD_TRIGGER_COUNT == 3
MAX_UPLOAD_RETRIES == 3
UPLOAD_BATCH_SIZE == 5
UPLOAD_CHECK_INTERVAL == 30000
MEMORY_CHECK_INTERVAL == 60000
WIFI_RETRY_INTERVAL == 60000
ERROR_COOLDOWN_T10 == 30000
ERROR_CEILING == 5
MAINTENANCE_ERROR_RESET == 10
LOW_MEMORY == 50000
CRITICAL_MEMORY == 20000
RECORD_GRACE_T10 == 2000
RECORD_GRACE_T7 == 1000
ERROR_COOLDOWN_T7 == 10000
UPLOAD_IDLE_T7 == 30000
BUFFER_SIZE == 1024

\* voice_detection.cpp and config.h; Centi is the scale of the floats held in hundredths
VAD_NOISE_FLOOR == 100
VAD_SAMPLE_WINDOW == 256
VAD_SENSITIVITY == 2
NOISE_UPDATE_PERIOD == 100
CALIBRATION_READS == 30
Centi == 100

(* Bounds of the model *)

MaxErrorCount == 5      \* errorCount saturates here
MaxBumps == 3           \* errorBumps saturates here
MaxTriggers == 2        \* vadTriggerCount saturates here
MaxFrames == 6          \* frames fed to the detector in SpecVAD
MaxFiles == 2           \* recordings that can exist
MaxRetryCount == 4      \* uploadRetryCount saturates here
MaxTransfers == 2       \* transfers of a file saturate here
MaxFailures == 4        \* failures of a file saturate here
MaxBatch == 6           \* recordings of the drain specification
MaxVadCalls == 4        \* calls made to voice_detection.cpp
MaxRecorderCalls == 4   \* calls made to audio_recorder.cpp

TickDeltas == {25000}
HeapLevels == {100000, 10000}
Unset == -1

Min(a, b) == IF a < b THEN a ELSE b

\* millis() - T after d more milliseconds, as far as "> K" can tell
Elapse(age, d, K) == IF age + d > K THEN K + 1 ELSE age + d

Bump(n, cap) == Min(n + 1, cap)

\* the recordings, named by their position in the directory listing
Files == 1..MaxFiles

-----------------------------------------------------------------------------
(* Audio: what I2S delivers is a sequence of runs [v |-> sample, n |-> count] *)

Run(v, n) == [v |-> v, n |-> n]

\* (int16_t)sample
ToInt16(v) == ((v + 32768) % 65536) - 32768

\* sample != 0 && sample != -1 && sample != 1
IsValidSample(v) == v # 0 /\ v # -1 /\ v # 1

\* the valid samples among the first runs, at most room of them
RECURSIVE TakeValid(_, _)
TakeValid(runs, room) ==
  IF runs = <<>> \/ room = 0 THEN <<>>
  ELSE LET r == Head(runs)
       IN IF IsValidSample(r.v)
            THEN LET k == Min(r.n, room)
                 IN <<Run(ToInt16(r.v), k)>> \o TakeValid(Tail(runs), room - k)
            ELSE TakeValid(Tail(runs), room)

RECURSIVE CountSamples(_)
CountSamples(runs) ==
  IF runs = <<>> THEN 0 ELSE Head(runs).n + CountSamples(Tail(runs))

RECURSIVE SumSamples(_)
SumSamples(runs) ==
  IF runs = <<>> THEN 0 ELSE Head(runs).v * Head(runs).n + SumSamples(Tail(runs))

RECURSIVE SumSquares(_)
SumSquares(runs) ==
  IF runs = <<>> THEN 0
  ELSE Head(runs).v * Head(runs).v * Head(runs).n + SumSquares(Tail(runs))

RECURSIVE SumSquaredDiffs(_, _)
SumSquaredDiffs(runs, mean) ==
  IF runs = <<>> THEN 0
  ELSE (Head(runs).v - mean) * (Head(runs).v - mean) * Head(runs).n
       + SumSquaredDiffs(Tail(runs), mean)

\* The frames offered to the detector.  Their means are whole numbers, so the
\* float arithmetic of the code is exact on them.
FrameNoData == <<>>
FrameQuiet == <<Run(40, 256), Run(-40, 256)>>
FrameVoice == <<Run(100, 256), Run(-100, 256)>>
FrameVoiceHalf == <<Run(0, 100), Run(100, 128), Run(-1, 50), Run(-100, 128), Run(1, 20)>>
FrameFriction == <<Run(400, 256), Run(-400, 256)>>
FrameHum == <<Run(300, 512)>>
FrameSentinels == <<Run(0, 200), Run(-1, 200), Run(1, 112)>>
FrameShort == <<Run(100, 127), Run(0, 300), Run(-100, 127)>>

VadFrames == {FrameNoData, FrameQuiet, FrameVoice, FrameVoiceHalf, FrameFriction,
              FrameHum, FrameSentinels, FrameShort}

\* bool currentDetection of performAdvancedVAD on the samples read
\* rms > RMS_THRESHOLD is compared squared: sum / n > RMS_THRESHOLD^2
RawDetection(samples) ==
  LET n == CountSamples(samples)
      sum == SumSquares(samples)
      mean == SumSamples(samples) \div n
      variance == SumSquaredDiffs(samples, mean)
      rmsCheck == sum > RMS_THRESHOLD * RMS_THRESHOLD * n
      varianceCheck == variance > VARIANCE_MIN * n /\ variance < VARIANCE_MAX * n
  IN rmsCheck /\ varianceCheck

\* the frame is analysed: samples were available and at least half a window is valid
Conclusive(frame) ==
  frame # <<>> /\ CountSamples(TakeValid(frame, VAD_SAMPLES)) >= VAD_SAMPLES \div 2

\* the detector without the reset on a raw-negative frame
\* performAdvancedVAD that counts the triggering frame towards the next trigger
performAdvancedVAD_CarryOne(frame, consecutive, triggers) ==
  LET samples == TakeValid(frame, VAD_SAMPLES)
      quiet == [ret |-> FALSE, consecutiveDetections |-> consecutive,
                vadTriggerCount |-> triggers]
  IN IF frame = <<>> THEN quiet
     ELSE IF CountSamples(samples) < VAD_SAMPLES \div 2 THEN quiet
     ELSE IF RawDetection(samples)
       THEN IF consecutive + 1 >= VAD_TRIGGER_COUNT
              THEN [ret |-> TRUE, consecutiveDetections |-> 1,
                    vadTriggerCount |-> Bump(triggers, MaxTriggers)]
              ELSE [ret |-> FALSE, consecutiveDetections |-> consecutive + 1,
                    vadTriggerCount |-> triggers]
       ELSE [ret |-> FALSE, consecutiveDetections |-> 0, vadTriggerCount |-> triggers]

performAdvancedVAD_NoReset(frame, consecutive, triggers) ==
  LET samples == TakeValid(frame, VAD_SAMPLES)
      keep == [ret |-> FALSE, consecutiveDetections |-> consecutive,
               vadTriggerCount |-> triggers]
  IN IF frame = <<>> \/ CountSamples(samples) < VAD_SAMPLES \div 2 THEN keep
     ELSE IF RawDetection(samples)
       THEN IF consecutive + 1 >= VAD_TRIGGER_COUNT
              THEN [ret |-> TRUE, consecutiveDetections |-> 0,
                    vadTriggerCount |-> Bump(triggers, MaxTriggers)]
              ELSE [ret |-> FALSE, consecutiveDetections |-> consecutive + 1,
                    vadTriggerCount |-> triggers]
       ELSE keep

\* the detector clearing its counter on a frame it cannot analyse
performAdvancedVAD_ResetOnShort(frame, consecutive, triggers) ==
  LET samples == TakeValid(frame, VAD_SAMPLES)
  IN IF frame = <<>> \/ CountSamples(samples) < VAD_SAMPLES \div 2
       THEN [ret |-> FALSE, consecutiveDetections |-> 0, vadTriggerCount |-> triggers]
       ELSE performAdvancedVAD_NoReset(frame,
              IF RawDetection(samples) THEN consecutive ELSE 0, triggers)

\* performAdvancedVAD: the value returned and the statics after the call
performAdvancedVAD(frame, consecutive, triggers) ==
  LET samples == TakeValid(frame, VAD_SAMPLES)
      quiet == [ret |-> FALSE, consecutiveDetections |-> consecutive,
                vadTriggerCount |-> triggers]
  IN IF frame = <<>> THEN quiet
     ELSE IF CountSamples(samples) < VAD_SAMPLES \div 2 THEN quiet
     ELSE IF RawDetection(samples)
       THEN IF consecutive + 1 >= VAD_TRIGGER_COUNT
              THEN [ret |-> TRUE, consecutiveDetections |-> 0,
                    vadTriggerCount |-> Bump(triggers, MaxTriggers)]
              ELSE [ret |-> FALSE, consecutiveDetections |-> consecutive + 1,
                    vadTriggerCount |-> triggers]
       ELSE [ret |-> FALSE, consecutiveDetections |-> 0, vadTriggerCount |-> triggers]

-----------------------------------------------------------------------------
(* Test 10: end-to-end scheduler *)

\* the helpers the sketch leaves as stubs
hasUnuploadedFiles_T10 == TRUE
findNextUnuploadedFile_T10 == ""
uploadFile_T10(filename) == TRUE
countUnuploadedFiles_T10 == 0
shouldPerformMaintenance == countUnuploadedFiles_T10 > 20

\* the variables this scheduler never touches
otherT10 == <<happyPath, vadHistory, pending, uploaded, uploadRetryCount, uploadHistory,
              sdInitialized, recordingCount, t7Only, mainOnly, noiseVars, recorderVars>>

\* the globals and function statics of the sketch
State_T10 ==
  [currentState |-> currentState, stateStartTimeAge |-> stateStartTimeAge,
   lastUploadCheckAge |-> lastUploadCheckAge, lastMemoryCheckAge |-> lastMemoryCheckAge,
   lastWiFiRetryAge |-> lastWiFiRetryAge, wifiConnected |-> wifiConnected,
   wifiStatus |-> wifiStatus, errorCount |-> errorCount, initStep |-> initStep,
   recordingActive |-> recordingActive, recordingFileOpen |-> recordingFileOpen,
   recordingStartTimeAge |-> recordingStartTimeAge, samplesRecorded |-> samplesRecorded,
   uploadSessionActive |-> uploadSessionActive, filesUploaded |-> filesUploaded,
   errorStartTimeAge |-> errorStartTimeAge,
   consecutiveDetections |-> consecutiveDetections, vadTriggerCount |-> vadTriggerCount]

Becomes_T10(s) ==
  /\ currentState' = s.currentState
  /\ stateStartTimeAge' = s.stateStartTimeAge
  /\ lastUploadCheckAge' = s.lastUploadCheckAge
  /\ lastMemoryCheckAge' = s.lastMemoryCheckAge
  /\ lastWiFiRetryAge' = s.lastWiFiRetryAge
  /\ wifiConnected' = s.wifiConnected
  /\ wifiStatus' = s.wifiStatus
  /\ errorCount' = s.errorCount
  /\ initStep' = s.initStep
  /\ recordingActive' = s.recordingActive
  /\ recordingFileOpen' = s.recordingFileOpen
  /\ recordingStartTimeAge' = s.recordingStartTimeAge
  /\ samplesRecorded' = s.samplesRecorded
  /\ uploadSessionActive' = s.uploadSessionActive
  /\ filesUploaded' = s.filesUploaded
  /\ errorStartTimeAge' = s.errorStartTimeAge
  /\ consecutiveDetections' = s.consecutiveDetections
  /\ vadTriggerCount' = s.vadTriggerCount

\* the state of the sketch when loop() first runs
Boot_T10 ==
  [currentState |-> "INIT", stateStartTimeAge |-> 0, lastUploadCheckAge |-> 0,
   lastMemoryCheckAge |-> 0, lastWiFiRetryAge |-> 0, wifiConnected |-> FALSE,
   wifiStatus |-> FALSE, errorCount |-> 0, initStep |-> 0, recordingActive |-> FALSE,
   recordingFileOpen |-> FALSE, recordingStartTimeAge |-> 0, samplesRecorded |-> 0,
   uploadSessionActive |-> FALSE, filesUploaded |-> 0, errorStartTimeAge |-> Unset,
   consecutiveDetections |-> 0, vadTriggerCount |-> 0]

\* what the environment may answer: anything, or success only on the happy path
Outcomes == IF happyPath THEN {TRUE} ELSE BOOLEAN
HeapNow == IF happyPath THEN {100000} ELSE HeapLevels

\* millis() moves on by d: every timestamp ages.  Two values are forgotten here
\* because nothing reads them again: the time in the state (only updateLED and
\* printStatus use it) and, once no recording is active, the start time and the
\* sample count of the last one (startRecording overwrites both).
Tick_T10(s, d) ==
  [s EXCEPT
     !.stateStartTimeAge = 0,
     !.lastUploadCheckAge = Elapse(@, d, UPLOAD_CHECK_INTERVAL),
     !.lastMemoryCheckAge = Elapse(@, d, MEMORY_CHECK_INTERVAL),
     !.lastWiFiRetryAge = Elapse(@, d, WIFI_RETRY_INTERVAL),
     !.recordingStartTimeAge =
        IF s.recordingActive THEN Elapse(@, d, RECORD_DURATION * 1000 + RECORD_GRACE_T10)
        ELSE 0,
     !.samplesRecorded = IF s.recordingActive THEN @ ELSE 0,
     !.errorStartTimeAge = IF @ = Unset THEN Unset ELSE Elapse(@, d, ERROR_COOLDOWN_T10)]

\* changeState(newState): lastLEDToggle is presentation and is left out
changeState(s, newState) ==
  IF s.currentState # newState
    THEN [s EXCEPT !.currentState = newState, !.stateStartTimeAge = 0]
    ELSE s

\* attemptWiFiConnection: connected is what WiFi.status() says after the wait
attemptWiFiConnection(s, connected) ==
  [s EXCEPT !.wifiStatus = connected, !.wifiConnected = connected]

\* isWiFiConnected: the state after the call; the value returned is s.wifiStatus
isWiFiConnected(s) == [s EXCEPT !.wifiConnected = s.wifiStatus]

\* checkMemoryUsage: freeHeapMin is a diagnostic and is left out
checkMemoryUsage(s, freeHeap) ==
  IF freeHeap < LOW_MEMORY /\ freeHeap < CRITICAL_MEMORY
    THEN changeState(s, "MAINTENANCE")
    ELSE s

\* performPeriodicTasks.  The status report only prints and is left out.
\* performPeriodicTasks up to the upload check: the memory check
afterMemoryCheck(s, freeHeap) ==
  IF s.lastMemoryCheckAge > MEMORY_CHECK_INTERVAL
    THEN [checkMemoryUsage(s, freeHeap) EXCEPT !.lastMemoryCheckAge = 0]
    ELSE s

\* the upload check of performPeriodicTasks is due in s
UploadCheckDue(s) ==
  s.currentState # "UPLOADING" /\ s.lastUploadCheckAge > UPLOAD_CHECK_INTERVAL

\* the state the upload check leaves for UPLOADING in this call, "none" if it does not
UploadCheckFrom(s, freeHeap) ==
  LET s1 == afterMemoryCheck(s, freeHeap)
  IN IF UploadCheckDue(s1) /\ hasUnuploadedFiles_T10 /\ s1.wifiStatus
       THEN s1.currentState ELSE "none"

performPeriodicTasks(s, freeHeap, connected) ==
  LET s1 == afterMemoryCheck(s, freeHeap)
      upDue == UploadCheckDue(s1)
      s2 == IF upDue
              THEN LET a == IF hasUnuploadedFiles_T10 THEN isWiFiConnected(s1) ELSE s1
                       b == IF hasUnuploadedFiles_T10 /\ s1.wifiStatus
                              THEN changeState(a, "UPLOADING") ELSE a
                   IN [b EXCEPT !.lastUploadCheckAge = 0]
              ELSE s1
      retry == ~s2.wifiConnected /\ s2.lastWiFiRetryAge > WIFI_RETRY_INTERVAL
  IN IF retry
       THEN [attemptWiFiConnection(s2, connected) EXCEPT !.lastWiFiRetryAge = 0]
       ELSE s2

\* whether performPeriodicTasks reads the heap / waits for the WiFi
MemoryCheckDue(s) == s.lastMemoryCheckAge > MEMORY_CHECK_INTERVAL
WiFiRetryDue(s) == s.lastWiFiRetryAge > WIFI_RETRY_INTERVAL

\* handleInitState: ok is what SD.begin, I2S.begin or the WiFi wait answers
handleInitState_T10(s, ok) ==
  CASE s.initStep = 0 ->
         IF ~ok THEN changeState(s, "ERROR") ELSE [s EXCEPT !.initStep = 1]
    [] s.initStep = 1 ->
         IF ~ok THEN changeState(s, "ERROR") ELSE [s EXCEPT !.initStep = 2]
    [] s.initStep = 2 ->
         [attemptWiFiConnection(s, ok) EXCEPT !.initStep = 3]
    [] OTHER -> changeState(s, "LISTENING")

\* handleListeningState.  The 30-minute gate of the maintenance check is any tick:
\* shouldPerformMaintenance decides, and the stub never asks for maintenance.
handleListeningState_T10(s, frame) ==
  LET vad == performAdvancedVAD(frame, s.consecutiveDetections, s.vadTriggerCount)
      \* vadTriggerCount is only reported: the scheduler leaves it to VadStep
      s1 == [s EXCEPT !.consecutiveDetections = vad.consecutiveDetections]
  IN IF vad.ret THEN changeState(s1, "RECORDING")
     ELSE IF shouldPerformMaintenance THEN changeState(s1, "MAINTENANCE")
     ELSE s1

\* handleRecordingState.  totalRecordings only counts and is left out; the header
\* writeWAVHeader writes (a stub) and the bytes written are not state here.
handleRecordingState_T10(s, opened, stream) ==
  IF ~s.recordingActive /\ ~opened
    THEN \* SD.open failed
         changeState([s EXCEPT !.recordingFileOpen = FALSE,
                               !.errorCount = Bump(@, MaxErrorCount)], "ERROR")
    ELSE LET s1 == IF s.recordingActive THEN s
                   ELSE [s EXCEPT !.recordingFileOpen = TRUE, !.recordingActive = TRUE,
                                  !.recordingStartTimeAge = 0, !.samplesRecorded = 0]
             s2 == [s1 EXCEPT !.samplesRecorded =
                      @ + CountSamples(TakeValid(stream, TOTAL_SAMPLES - @))]
         IN IF s2.samplesRecorded >= TOTAL_SAMPLES
               \/ s2.recordingStartTimeAge > RECORD_DURATION * 1000 + RECORD_GRACE_T10
              THEN changeState([s2 EXCEPT !.recordingFileOpen = FALSE,
                                          !.recordingActive = FALSE], "LISTENING")
              ELSE s2

\* handleUploadingState.  totalUploads only counts and is left out.
\* nextFile is what findNextUnuploadedFile() returned, sent what uploadFile(nextFile)
\* returned
handleUploadingState_T10(s, nextFile, sent) ==
  LET s1 == IF s.uploadSessionActive THEN s
            ELSE [s EXCEPT !.filesUploaded = 0, !.uploadSessionActive = TRUE]
      s2 == isWiFiConnected(s1)
  IN IF ~s1.wifiStatus
       THEN changeState([s2 EXCEPT !.uploadSessionActive = FALSE], "LISTENING")
     ELSE IF nextFile = ""
       THEN changeState([s2 EXCEPT !.uploadSessionActive = FALSE], "LISTENING")
     ELSE LET s3 == IF sent
                      THEN [s2 EXCEPT !.filesUploaded = @ + 1]
                      ELSE [s2 EXCEPT !.errorCount = Bump(@, MaxErrorCount)]
          IN IF s3.filesUploaded >= UPLOAD_BATCH_SIZE
               THEN changeState([s3 EXCEPT !.uploadSessionActive = FALSE], "LISTENING")
               ELSE s3

\* handleMaintenanceState: cleanupOldFiles and checkFileSystemHealth only print
handleMaintenanceState(s) ==
  changeState([s EXCEPT !.errorCount = IF @ > MAINTENANCE_ERROR_RESET THEN 0 ELSE @],
              "LISTENING")

\* handleErrorState
handleErrorState_T10(s) ==
  LET s1 == IF s.errorStartTimeAge = Unset      \* errorStartTime == 0
              THEN [s EXCEPT !.errorStartTimeAge = 0,
                             !.errorCount = Bump(@, MaxErrorCount)]
              ELSE s
  IN IF s1.errorStartTimeAge > ERROR_COOLDOWN_T10
       THEN LET s2 == [s1 EXCEPT !.errorStartTimeAge = Unset]
            IN IF s2.errorCount < ERROR_CEILING THEN changeState(s2, "INIT") ELSE s2
       ELSE s1

\* what I2S delivers during one RECORDING tick
RecordingStreams ==
  {<<>>, <<Run(0, 7), Run(100, 40000), Run(-1, 3), Run(-100, 50000)>>}

\* on the happy path i2s_read always delivers samples
StreamsNow ==
  IF happyPath THEN {<<Run(0, 7), Run(100, 40000), Run(-1, 3), Run(-100, 50000)>>}
  ELSE RecordingStreams

\* what the microphone delivers during one LISTENING tick
ListeningFrames == {FrameQuiet, FrameVoice, FrameSentinels}

\* the answers the handler of state may get in one tick
\* what the stubs of the sketch answer
StubFile == findNextUnuploadedFile_T10
StubSent == uploadFile_T10(findNextUnuploadedFile_T10)

HandlerInputs(s) ==
  LET state == s.currentState IN
  CASE state = "INIT" ->
         {[ok |-> b, frame |-> <<>>, stream |-> <<>>, nextFile |-> StubFile, sent |-> StubSent] : b \in Outcomes}
    [] state = "LISTENING" ->
         {[ok |-> TRUE, frame |-> f, stream |-> <<>>, nextFile |-> StubFile,
            sent |-> StubSent] : f \in ListeningFrames}
    [] state = "RECORDING" ->
         {[ok |-> b, frame |-> <<>>, stream |-> r, nextFile |-> StubFile, sent |-> StubSent] :
            b \in (IF s.recordingActive THEN {TRUE} ELSE Outcomes), r \in StreamsNow}
    [] OTHER -> {[ok |-> TRUE, frame |-> <<>>, stream |-> <<>>, nextFile |-> StubFile,
                  sent |-> StubSent]}

\* handleCurrentState
handleCurrentState_T10(s, in) ==
  CASE s.currentState = "INIT" -> handleInitState_T10(s, in.ok)
    [] s.currentState = "LISTENING" -> handleListeningState_T10(s, in.frame)
    [] s.currentState = "RECORDING" -> handleRecordingState_T10(s, in.ok, in.stream)
    [] s.currentState = "UPLOADING" -> handleUploadingState_T10(s, in.nextFile, in.sent)
    [] s.currentState = "MAINTENANCE" -> handleMaintenanceState(s)
    [] OTHER -> handleErrorState_T10(s)

\* history of the stay in ERROR (before: the state the handler was called in,
\* after: the state it left).  sinceErrorEntry is the time since ERROR was
\* entered; errorBumps counts the increments of errorCount made by the handler
\* call that entered ERROR and by the handler calls of the stay since;
\* lastRecovery is the time since ERROR was entered when this tick's handler
\* moved from ERROR to INIT (Unset when it did not).
TrackError(d, before, after) ==
  LET entered == before.currentState # "ERROR" /\ after.currentState = "ERROR"
      bumped == IF after.errorCount > before.errorCount THEN 1 ELSE 0
  IN /\ sinceErrorEntry' =
          IF entered \/ after.currentState # "ERROR" THEN 0
          ELSE Elapse(sinceErrorEntry, d, ERROR_COOLDOWN_T10)
     /\ errorBumps' =
          IF after.currentState # "ERROR" THEN 0
          ELSE IF entered THEN bumped
          ELSE Min(errorBumps + bumped, MaxBumps)
     /\ lastRecovery' =
          IF before.currentState = "ERROR" /\ after.currentState = "INIT"
            THEN Elapse(sinceErrorEntry, d, ERROR_COOLDOWN_T10)
            ELSE Unset

\* one iteration of loop() with no serial command: the periodic tasks, then the
\* handler of the current state (updateLED is presentation and is left out)
\* the static counter of performAdvancedVAD at the moment the handler called
\* changeState(STATE_LISTENING) from another state, Unset if it did not
EntryDetections(before, after) ==
  IF before.currentState # "LISTENING" /\ after.currentState = "LISTENING"
    THEN after.consecutiveDetections ELSE Unset

loopWith_T10(files, results) ==
  /\ \E d \in TickDeltas, radio \in Outcomes :
       LET s0 == [Tick_T10(State_T10, d) EXCEPT !.wifiStatus = radio]
       IN \E freeHeap \in (IF MemoryCheckDue(s0) THEN HeapNow ELSE {100000}),
             connected \in (IF WiFiRetryDue(s0) THEN Outcomes ELSE {TRUE}) :
            LET s1 == performPeriodicTasks(s0, freeHeap, connected)
            IN \E in0 \in HandlerInputs(s1),
                  f \in (IF s1.currentState = "UPLOADING" THEN files ELSE {StubFile}),
                  ok \in (IF s1.currentState = "UPLOADING" THEN results ELSE {StubSent}) :
                 LET in == [in0 EXCEPT !.nextFile = f, !.sent = ok]
                     s2 == handleCurrentState_T10(s1, in)
                 IN /\ Becomes_T10(s2)
                    /\ TrackError(d, s1, s2)
                    /\ uploadCheckFrom' = UploadCheckFrom(s0, freeHeap)
                    /\ entryDetections' = EntryDetections(s1, s2)
  /\ loopBeat' = (happyPath /\ ~loopBeat)
  /\ UNCHANGED otherT10

\* loop() of the sketch as it is: the helpers are its stubs
loop_T10 == loopWith_T10({StubFile}, {StubSent})

\* handleSerialInput, command 'wifi' (the other commands but 'reset' only print)
handleSerialInput_T10 ==
  /\ ~happyPath
  /\ \E connected \in BOOLEAN : Becomes_T10(attemptWiFiConnection(State_T10, connected))
  /\ UNCHANGED <<loopBeat, t10History, otherT10>>

\* handleSerialInput, command 'reset': ESP.restart() starts the sketch again
restart_T10 ==
  /\ ~happyPath
  /\ Becomes_T10(Boot_T10)
  /\ sinceErrorEntry' = 0
  /\ errorBumps' = 0
  /\ lastRecovery' = Unset
  /\ uploadCheckFrom' = "none"
  /\ entryDetections' = Unset
  /\ UNCHANGED <<loopBeat, otherT10>>

\* every variable but currentState when the program starts
InitGlobals ==
  /\ stateStartTimeAge = Boot_T10.stateStartTimeAge
  /\ lastUploadCheckAge = Boot_T10.lastUploadCheckAge
  /\ lastMemoryCheckAge = Boot_T10.lastMemoryCheckAge
  /\ lastWiFiRetryAge = Boot_T10.lastWiFiRetryAge
  /\ wifiConnected = Boot_T10.wifiConnected
  /\ wifiStatus = Boot_T10.wifiStatus
  /\ errorCount = Boot_T10.errorCount
  /\ initStep = Boot_T10.initStep
  /\ recordingActive = Boot_T10.recordingActive
  /\ recordingFileOpen = Boot_T10.recordingFileOpen
  /\ recordingStartTimeAge = Boot_T10.recordingStartTimeAge
  /\ samplesRecorded = Boot_T10.samplesRecorded
  /\ uploadSessionActive = Boot_T10.uploadSessionActive
  /\ filesUploaded = Boot_T10.filesUploaded
  /\ errorStartTimeAge = Boot_T10.errorStartTimeAge
  /\ consecutiveDetections = Boot_T10.consecutiveDetections
  /\ vadTriggerCount = Boot_T10.vadTriggerCount
  /\ happyPath = FALSE
  /\ loopBeat = FALSE
  /\ sinceErrorEntry = 0
  /\ errorBumps = 0
  /\ lastRecovery = Unset
  /\ uploadCheckFrom = "none"
  /\ entryDetections = Unset
  /\ rawHistory = <<>>
  /\ vadResults = <<>>
  /\ pending = {}
  /\ uploaded = {}
  /\ uploadRetryCount = 0
  /\ transfers = [f \in Files |-> 0]
  /\ failures = [f \in Files |-> 0]
  /\ afterLoss = 0
  /\ batchUploads = 0
  /\ errorCode = 0
  /\ sdInitialized = FALSE
  /\ audioInitialized = FALSE
  /\ wifiInitialized = FALSE
  /\ recordingCount = 0
  /\ nonWifiFault = FALSE
  /\ writeFailed = FALSE
  /\ initFailureCode = [storage |-> Unset, audio |-> Unset]
  /\ lastFile = [state |-> "none", chunkSize |-> 0, subchunk2Size |-> 0, dataBytes |-> 0,
                 writesOk |-> TRUE]
  /\ usbConnected = FALSE
  /\ ledMode = "LED_OFF"
  /\ vadInitialized = FALSE
  /\ silenceStartTimeAge = Unset
  /\ lastUploadAttemptAge = 0
  /\ clockPhase = Unset
  /\ recoveryAttempted = FALSE
  /\ quietAge = Unset
  /\ stoppedOnSilence = FALSE
  /\ noiseFloor = VAD_NOISE_FLOOR * Centi
  /\ currentAudioLevel = 0
  /\ lastNoiseUpdateAge = 0
  /\ vadCalls = 0
  /\ bytesWritten = 0
  /\ sinkBytes = 0
  /\ recorderCalls = 0
  /\ lastRecorderCall = [call |-> "none", ret |-> FALSE, frame |-> <<>>, wrote |-> 0,
                         afterStop |-> FALSE, headerTaken |-> TRUE,
                         before |-> [recording |-> FALSE, fileOpen |-> FALSE,
                                     bytesWritten |-> 0, recordingStartTimeAge |-> 0,
                                     sinkBytes |-> 0]]
  /\ lastDetect = [call |-> "none", frame |-> [pattern |-> <<0>>, reps |-> 0],
                   floorBefore |-> 0, ageBefore |-> 0, detected |-> FALSE]

Init ==
  /\ currentState = Boot_T10.currentState
  /\ InitGlobals

NextT10 ==
  \/ loop_T10
  \/ handleSerialInput_T10
  \/ restart_T10

SpecT10 == Init /\ [][NextT10]_vars

\* from some moment on every subsystem call succeeds and nothing is typed
beginHappyPath ==
  /\ ~happyPath
  /\ happyPath' = TRUE
  /\ UNCHANGED <<currentState, stateStartTimeAge, lastUploadCheckAge, lastMemoryCheckAge,
                 lastWiFiRetryAge, wifiConnected, wifiStatus, errorCount, initStep,
                 recordingActive, recordingFileOpen, recordingStartTimeAge,
                 samplesRecorded, uploadSessionActive, filesUploaded, errorStartTimeAge,
                 consecutiveDetections, vadTriggerCount, loopBeat, t10History,
                 vadHistory, pending, uploaded, uploadRetryCount, uploadHistory,
                 sdInitialized, recordingCount, t7Only, mainOnly, noiseVars, recorderVars>>

NextT10Live ==
  \/ NextT10
  \/ beginHappyPath

\* a call of setup() or loop() on the happy path: the only steps that flip loopBeat
LoopCalled == happyPath /\ loopBeat' = ~loopBeat

\* loop() keeps being called
SpecT10Live == Init /\ [][NextT10Live]_vars /\ WF_loopBeat(LoopCalled)

\* The sketch with the upload helpers linked in place of the stubs: what
\* findNextUnuploadedFile() and uploadFile() return is the environment's, and every
\* other subsystem call succeeds from the first call of loop() on.
LinkedFiles == {"", "/recordings/rec_0001.wav"}
LinkedResults == BOOLEAN
loopLinked_T10 == happyPath /\ loopWith_T10(LinkedFiles, LinkedResults)

NextT10Linked ==
  \/ loopLinked_T10
  \/ beginHappyPath

SpecT10Linked == Init /\ [][NextT10Linked]_vars /\ WF_loopBeat(LoopCalled)


-----------------------------------------------------------------------------
(* The detector on its own: frames are fed to performAdvancedVAD one by one *)

\* raw result of a frame: "T" voice, "F" no voice, "-" not analysed
RawOf(frame) ==
  IF ~Conclusive(frame) THEN "-"
  ELSE IF RawDetection(TakeValid(frame, VAD_SAMPLES)) THEN "T" ELSE "F"

\* every variable but the detector's statics and the two histories
notVAD == <<currentState, stateStartTimeAge, lastUploadCheckAge, lastMemoryCheckAge,
            lastWiFiRetryAge, wifiConnected, wifiStatus, errorCount, initStep,
            recordingActive, recordingFileOpen, recordingStartTimeAge, samplesRecorded,
            uploadSessionActive, filesUploaded, errorStartTimeAge, happyPath, loopBeat,
            t10History, pending, uploaded, uploadRetryCount, uploadHistory,
            sdInitialized, recordingCount, t7Only, mainOnly, noiseVars, recorderVars>>

\* one call of performAdvancedVAD on a frame
VadStep ==
  /\ Len(rawHistory) < MaxFrames
  /\ \E frame \in VadFrames :
       LET vad == performAdvancedVAD(frame, consecutiveDetections, vadTriggerCount)
       IN /\ consecutiveDetections' = vad.consecutiveDetections
          /\ vadTriggerCount' = vad.vadTriggerCount
          /\ rawHistory' = Append(rawHistory, RawOf(frame))
          /\ vadResults' = Append(vadResults, vad.ret)
  /\ UNCHANGED notVAD

NextVAD == VadStep

SpecVAD == Init /\ [][NextVAD]_vars

-----------------------------------------------------------------------------
(* The upload queue: wifi_sync.cpp over the directories of sd_manager.cpp *)

\* the files of a directory in the order openNextFile lists them
RECURSIVE Listing(_)
Listing(dir) ==
  IF dir = {} THEN <<>>
  ELSE LET f == CHOOSE x \in dir : \A y \in dir : x <= y
       IN <<f>> \o Listing(dir \ {f})

\* getUnuploadedFiles(files, maxFiles): the first maxFiles names under /recordings
getUnuploadedFiles(dir, maxFiles) ==
  LET all == Listing(dir)
  IN IF Len(all) <= maxFiles THEN all ELSE SubSeq(all, 1, maxFiles)

\* markFileAsUploaded: renamed says whether SD.rename (or the mkdir before it) worked
markFileAsUploaded(s, filename, renamed) ==
  IF renamed
    THEN [s EXCEPT !.pending = @ \ {filename}, !.uploaded = @ \cup {filename}]
    ELSE s

\* isWiFiConnected of wifi_sync.cpp: the state after the call
isWiFiConnected_sync(s) == [s EXCEPT !.wifiConnected = s.wifiStatus]

\* connectToWiFi: connected is WiFi.status() == WL_CONNECTED after the wait
connectToWiFi(s, connected) ==
  IF s.wifiConnected THEN s
  ELSE [s EXCEPT !.wifiStatus = connected,
                 !.wifiConnected = IF connected THEN TRUE ELSE @]

\* the for loop of performUpload over files[i..]: sent[f] is what uploadFile(f)
\* returns, renamed[f] what markFileAsUploaded(f) can do.  log lists the attempts.
RECURSIVE UploadLoop(_, _, _, _, _)
UploadLoop(s, files, sent, renamed, allUploaded) ==
  IF files = <<>> THEN [state |-> s, allUploaded |-> allUploaded, log |-> <<>>]
  ELSE LET f == Head(files)
       IN IF sent[f]
            THEN LET rest == UploadLoop(markFileAsUploaded(s, f, renamed[f]),
                                        Tail(files), sent, renamed, allUploaded)
                 IN [rest EXCEPT !.log = <<[file |-> f, ok |-> TRUE]>> \o @]
            ELSE LET s1 == [s EXCEPT !.uploadRetryCount = Bump(@, MaxRetryCount)]
                     entry == <<[file |-> f, ok |-> FALSE]>>
                 IN IF s1.uploadRetryCount >= MAX_UPLOAD_RETRIES
                      THEN [state |-> s1, allUploaded |-> FALSE, log |-> entry]
                      ELSE LET rest == UploadLoop(s1, Tail(files), sent, renamed, FALSE)
                           IN [rest EXCEPT !.log = entry \o @]

\* resetUploadRetryCount
resetUploadRetryCount(s) == [s EXCEPT !.uploadRetryCount = 0]

\* performUpload: the value returned, the state after it and the attempts made.
\* listed says whether /recordings could be opened.
performUpload(s, connected, listed, sent, renamed) ==
  LET s1 == isWiFiConnected_sync(s)
      s2 == IF s.wifiStatus THEN s1 ELSE connectToWiFi(s1, connected)
  IN IF ~s.wifiStatus /\ ~connected
       THEN [ret |-> FALSE, state |-> s2, log |-> <<>>]
     ELSE IF ~listed
       THEN [ret |-> TRUE, state |-> s2, log |-> <<>>]
     ELSE LET run == UploadLoop(s2, getUnuploadedFiles(s2.pending, 10),
                                sent, renamed, TRUE)
              s3 == IF run.allUploaded THEN resetUploadRetryCount(run.state)
                    ELSE run.state
          IN [ret |-> run.allUploaded, state |-> s3, log |-> run.log]

\* the statics of wifi_sync.cpp and the two directories
State_Upload ==
  [pending |-> pending, uploaded |-> uploaded, uploadRetryCount |-> uploadRetryCount,
   wifiConnected |-> wifiConnected, wifiStatus |-> wifiStatus]

Becomes_Upload(s) ==
  /\ pending' = s.pending
  /\ uploaded' = s.uploaded
  /\ uploadRetryCount' = s.uploadRetryCount
  /\ wifiConnected' = s.wifiConnected
  /\ wifiStatus' = s.wifiStatus

\* history: the attempts of one activation added to the counts of each file
RECURSIVE Count(_, _, _)
Count(log, f, ok) ==
  IF log = <<>> THEN 0
  ELSE (IF Head(log).file = f /\ Head(log).ok = ok THEN 1 ELSE 0)
       + Count(Tail(log), f, ok)

TrackUploads(log) ==
  /\ transfers' = [f \in Files |-> Min(transfers[f] + Count(log, f, TRUE), MaxTransfers)]
  /\ failures' = [f \in Files |-> Min(failures[f] + Count(log, f, FALSE), MaxFailures)]

\* every variable but those of the upload queue
notUpload == <<currentState, stateStartTimeAge, lastUploadCheckAge, lastMemoryCheckAge,
               lastWiFiRetryAge, errorCount, initStep, recordingActive,
               recordingFileOpen, recordingStartTimeAge, samplesRecorded,
               uploadSessionActive, filesUploaded, errorStartTimeAge,
               consecutiveDetections, vadTriggerCount, happyPath, loopBeat, t10History,
               vadHistory, sdInitialized, recordingCount, t7Only, mainOnly, noiseVars, recorderVars>>

\* the answers the files of dir can get (the others are not asked)
AnswersFor(dir) == {a \in [Files -> BOOLEAN] : \A f \in Files \ dir : a[f]}

\* one activation of the queue
UploadActivation ==
  /\ \E radio \in BOOLEAN, listed \in BOOLEAN :
       \E connected \in (IF radio THEN {TRUE} ELSE BOOLEAN),
          sent \in AnswersFor(pending), renamed \in AnswersFor(pending) :
         LET r == performUpload([State_Upload EXCEPT !.wifiStatus = radio],
                                connected, listed, sent, renamed)
         IN /\ Becomes_Upload(r.state)
            /\ TrackUploads(r.log)
  /\ UNCHANGED <<afterLoss, batchUploads>>
  /\ UNCHANGED notUpload

\* a recording is finished and closed under /recordings
NewRecording ==
  /\ \E f \in Files \ (pending \cup uploaded) :
       pending' = pending \cup {f}
  /\ UNCHANGED <<uploaded, uploadRetryCount, wifiConnected, wifiStatus, uploadHistory>>
  /\ UNCHANGED notUpload

NextUpload ==
  \/ UploadActivation
  \/ NewRecording

SpecUpload == Init /\ [][NextUpload]_vars

\* ---- One drain of the queue, attempt by attempt ----

\* the recordings a drain can meet: more than UPLOAD_BATCH_SIZE of them
BatchFiles == 1 .. MaxBatch

\* the place of f in the list getUnuploadedFiles fills
Position(dir, f) == Cardinality({g \in dir : g <= f})

\* uploadFile during a drain: the POST of file f succeeds unless the server
\* refuses it (bad) or the radio has dropped by then (after dropAt attempts; 0 is never)
Sent(dir, bad, dropAt) ==
  [f \in BatchFiles |-> f # bad /\ (dropAt = 0 \/ Position(dir, f) <= dropAt)]

\* one call of performUpload whose radio may drop between two attempts
Drain ==
  /\ \E radio \in BOOLEAN, listed \in BOOLEAN, renamedAll \in BOOLEAN :
       \E connected \in (IF radio THEN {TRUE} ELSE BOOLEAN),
          bad \in {0} \cup pending, dropAt \in 0 .. Cardinality(pending) :
         LET r == performUpload([State_Upload EXCEPT !.wifiStatus = radio],
                                connected, listed, Sent(pending, bad, dropAt),
                                [f \in BatchFiles |-> renamedAll])
             dropped == dropAt > 0 /\ Len(r.log) >= dropAt
         IN /\ Becomes_Upload([r.state EXCEPT !.wifiStatus = @ /\ ~dropped])
            /\ afterLoss' = IF dropped THEN Len(r.log) - dropAt ELSE 0
            /\ batchUploads' = Cardinality({i \in 1 .. Len(r.log) : r.log[i].ok})
  /\ UNCHANGED <<transfers, failures>>
  /\ UNCHANGED notUpload

\* a recording is finished and closed under /recordings, in the order of the names
NextRecording ==
  /\ \E f \in BatchFiles \ (pending \cup uploaded) :
       /\ \A g \in BatchFiles \ (pending \cup uploaded) : f <= g
       /\ pending' = pending \cup {f}
  /\ UNCHANGED <<uploaded, uploadRetryCount, wifiConnected, wifiStatus, uploadHistory>>
  /\ UNCHANGED notUpload

NextDrain ==
  \/ Drain
  \/ NextRecording

SpecDrain == Init /\ [][NextDrain]_vars

-----------------------------------------------------------------------------
(* Test 7: state machine integration sketch *)

\* the globals and function statics of the sketch, and the /recordings directory
State_T7 ==
  [currentState |-> currentState, stateStartTimeAge |-> stateStartTimeAge,
   wifiConnected |-> wifiConnected, wifiStatus |-> wifiStatus, errorCode |-> errorCode,
   sdInitialized |-> sdInitialized, audioInitialized |-> audioInitialized,
   wifiInitialized |-> wifiInitialized, recordingCount |-> recordingCount,
   recordingActive |-> recordingActive, recordingFileOpen |-> recordingFileOpen,
   recordingStartTimeAge |-> recordingStartTimeAge, samplesRecorded |-> samplesRecorded,
   errorStartTimeAge |-> errorStartTimeAge, pending |-> pending, uploaded |-> uploaded]

Becomes_T7(s) ==
  /\ currentState' = s.currentState
  /\ stateStartTimeAge' = s.stateStartTimeAge
  /\ wifiConnected' = s.wifiConnected
  /\ wifiStatus' = s.wifiStatus
  /\ errorCode' = s.errorCode
  /\ sdInitialized' = s.sdInitialized
  /\ audioInitialized' = s.audioInitialized
  /\ wifiInitialized' = s.wifiInitialized
  /\ recordingCount' = s.recordingCount
  /\ recordingActive' = s.recordingActive
  /\ recordingFileOpen' = s.recordingFileOpen
  /\ recordingStartTimeAge' = s.recordingStartTimeAge
  /\ samplesRecorded' = s.samplesRecorded
  /\ errorStartTimeAge' = s.errorStartTimeAge
  /\ pending' = s.pending
  /\ uploaded' = s.uploaded

\* millis() moves on by d.  The start time and the sample count of a finished
\* recording are forgotten: the next recording overwrites both before reading them.
Tick_T7(s, d) ==
  [s EXCEPT
     !.stateStartTimeAge = Elapse(@, d, UPLOAD_IDLE_T7),
     !.recordingStartTimeAge =
        IF s.recordingActive THEN Elapse(@, d, RECORD_DURATION * 1000 + RECORD_GRACE_T7)
        ELSE 0,
     !.samplesRecorded = IF s.recordingActive THEN @ ELSE 0,
     !.errorStartTimeAge = IF @ = Unset THEN Unset ELSE Elapse(@, d, ERROR_COOLDOWN_T7)]

\* changeState leaving stateStartTime alone
changeState_NoClock(s, newState) ==
  IF s.currentState # newState THEN [s EXCEPT !.currentState = newState] ELSE s

\* changeState of Test 7
changeState_T7(s, newState) ==
  IF s.currentState # newState
    THEN [s EXCEPT !.currentState = newState, !.stateStartTimeAge = 0]
    ELSE s

\* handleCommand whose 'e' forgets errorCode
handleCommand_NoCode(s, cmd) ==
  CASE cmd = "i" -> changeState_T7(s, "INIT")
    [] cmd = "l" -> changeState_T7(s, "LISTENING")
    [] cmd = "r" -> changeState_T7(s, "RECORDING")
    [] cmd = "u" -> changeState_T7(s, "UPLOADING")
    [] cmd = "e" -> changeState_T7(s, "ERROR")
    [] OTHER -> s

\* handleCommand: 's', 'f' and unknown characters only print
handleCommand(s, cmd) ==
  CASE cmd = "i" -> changeState_T7(s, "INIT")
    [] cmd = "l" -> changeState_T7(s, "LISTENING")
    [] cmd = "r" -> changeState_T7(s, "RECORDING")
    [] cmd = "u" -> changeState_T7(s, "UPLOADING")
    [] cmd = "e" -> changeState_T7([s EXCEPT !.errorCode = 1], "ERROR")
    [] OTHER -> s

\* performVAD: no debounce, the raw decision of the frame
performVAD(frame) ==
  /\ Conclusive(frame)
  /\ RawDetection(TakeValid(frame, VAD_SAMPLES))

\* hasUnuploadedFiles of Test 7: opened says whether /recordings could be opened
hasUnuploadedFiles_T7(s, opened) == opened /\ s.pending # {}

\* uploadFile of Test 7: readable is SD.open(FILE_READ), accepted a 2xx answer
uploadFile_T7(s, readable, accepted) ==
  IF ~s.wifiConnected \/ ~s.wifiStatus THEN FALSE
  ELSE IF ~readable THEN FALSE
  ELSE accepted

\* handleInitState of Test 7: all three steps in one call
handleInitState_T7(s, in) ==
  IF ~s.sdInitialized /\ ~in.sd
    THEN changeState_T7([s EXCEPT !.errorCode = 1], "ERROR")
  ELSE LET s1 == [s EXCEPT !.sdInitialized = TRUE]
       IN IF ~s1.audioInitialized /\ ~in.audio
            THEN changeState_T7([s1 EXCEPT !.errorCode = 1], "ERROR")
          ELSE LET s2 == [s1 EXCEPT !.audioInitialized = TRUE]
                   s3 == IF s2.wifiInitialized THEN s2
                         ELSE [s2 EXCEPT !.wifiStatus = in.wifi,
                                         !.wifiConnected = in.wifi,
                                         !.wifiInitialized = TRUE]
               IN changeState_T7(s3, "LISTENING")

\* the initialization handleInitState gives up on in this call, "none" if it does not
InitFailure_T7(s, in) ==
  IF s.currentState # "INIT" THEN "none"
  ELSE IF ~s.sdInitialized /\ ~in.sd THEN "storage"
  ELSE IF ~s.audioInitialized /\ ~in.audio THEN "audio"
  ELSE "none"

\* handleListeningState that reads stateTime before the voice check
handleListeningState_StaleTime(s, in) ==
  LET s1 == IF performVAD(in.frame) THEN changeState_T7(s, "RECORDING") ELSE s
  IN IF s.stateStartTimeAge > UPLOAD_IDLE_T7 /\ hasUnuploadedFiles_T7(s1, in.dir)
        /\ s1.wifiConnected
       THEN changeState_T7(s1, "UPLOADING")
       ELSE s1

\* handleListeningState of Test 7
handleListeningState_T7(s, in) ==
  LET s1 == IF performVAD(in.frame) THEN changeState_T7(s, "RECORDING") ELSE s
  IN IF s1.stateStartTimeAge > UPLOAD_IDLE_T7 /\ hasUnuploadedFiles_T7(s1, in.dir)
        /\ s1.wifiConnected
       THEN changeState_T7(s1, "UPLOADING")
       ELSE s1

\* handleRecordingState of Test 7: the file exists under /recordings once opened
handleRecordingState_T7(s, in) ==
  LET n == s.recordingCount + 1
  IN IF ~s.recordingActive /\ ~in.opened
       THEN changeState_T7([s EXCEPT !.recordingCount = n, !.recordingFileOpen = FALSE,
                                     !.errorCode = 1], "ERROR")
     ELSE LET s1 == IF s.recordingActive THEN s
                    ELSE [s EXCEPT !.recordingCount = n, !.pending = @ \cup {n},
                                   !.recordingFileOpen = TRUE, !.recordingActive = TRUE,
                                   !.recordingStartTimeAge = 0, !.samplesRecorded = 0]
              s2 == [s1 EXCEPT !.samplesRecorded =
                       @ + CountSamples(TakeValid(in.stream, TOTAL_SAMPLES - @))]
          IN IF s2.samplesRecorded >= TOTAL_SAMPLES
                \/ s2.recordingStartTimeAge > RECORD_DURATION * 1000 + RECORD_GRACE_T7
               THEN LET s3 == [s2 EXCEPT !.recordingFileOpen = FALSE,
                                         !.recordingActive = FALSE]
                    IN IF s3.wifiConnected THEN changeState_T7(s3, "UPLOADING")
                       ELSE changeState_T7(s3, "LISTENING")
               ELSE s2

\* handleUploadingState of Test 7: one .wav file per call; the result of
\* SD.rename is not looked at, so a file that could not be renamed stays listed
handleUploadingState_T7(s, in) ==
  IF ~in.dir
    THEN changeState_T7([s EXCEPT !.errorCode = 1], "ERROR")
  ELSE IF s.pending = {}
    THEN changeState_T7(s, "LISTENING")
  ELSE LET f == Head(Listing(s.pending))
       IN IF uploadFile_T7(s, in.readable, in.accepted)
            THEN changeState_T7(
                   IF in.renamed
                     THEN [s EXCEPT !.pending = @ \ {f}, !.uploaded = @ \cup {f}]
                     ELSE s,
                   "LISTENING")
            ELSE changeState_T7([s EXCEPT !.errorCode = 3], "ERROR")

\* handleErrorState of Test 7
handleErrorState_T7(s) ==
  LET s1 == IF s.errorStartTimeAge = Unset THEN [s EXCEPT !.errorStartTimeAge = 0]
            ELSE s
  IN IF s1.errorStartTimeAge > ERROR_COOLDOWN_T7
       THEN changeState_T7([s1 EXCEPT !.errorCode = 0, !.errorStartTimeAge = Unset],
                           "INIT")
       ELSE s1

\* handleCurrentState of Test 7
handleCurrentState_T7(s, in) ==
  CASE s.currentState = "INIT" -> handleInitState_T7(s, in)
    [] s.currentState = "LISTENING" -> handleListeningState_T7(s, in)
    [] s.currentState = "RECORDING" -> handleRecordingState_T7(s, in)
    [] s.currentState = "UPLOADING" -> handleUploadingState_T7(s, in)
    [] OTHER -> handleErrorState_T7(s)

\* the answers of one tick when every call but those named succeeds
Answers == [sd |-> TRUE, audio |-> TRUE, wifi |-> TRUE, frame |-> <<>>, dir |-> TRUE,
            opened |-> TRUE, stream |-> <<>>, readable |-> TRUE, accepted |-> TRUE,
            renamed |-> TRUE, written |-> TRUE]

\* the samples the while loop of handleRecordingState hands to recordingFile.write
SamplesWritten_T7(s, in) ==
  IF s.currentState = "RECORDING" /\ (s.recordingActive \/ in.opened)
    THEN CountSamples(TakeValid(in.stream,
           TOTAL_SAMPLES - (IF s.recordingActive THEN s.samplesRecorded ELSE 0)))
    ELSE 0

\* writeWAVHeader: the two size fields (uint32_t; the values stay far below 2^31)
writeWAVHeader(totalSamples) ==
  [chunkSize |-> 44 + (totalSamples * 2) - 8, subchunk2Size |-> totalSamples * 2]

\* the recording file after one call of handleRecordingState took s to s2: the
\* header written when the file is created, the sample bytes the card took, and
\* whether the file is closed
FileAfter_T7(file, s, in, s2) ==
  IF s.currentState # "RECORDING" \/ (~s.recordingActive /\ ~in.opened) THEN file
  ELSE LET created == IF s.recordingActive THEN file
                      ELSE [state |-> "open",
                            chunkSize |-> writeWAVHeader(TOTAL_SAMPLES).chunkSize,
                            subchunk2Size |-> writeWAVHeader(TOTAL_SAMPLES).subchunk2Size,
                            dataBytes |-> 0, writesOk |-> TRUE]
           wrote == SamplesWritten_T7(s, in)
       IN [created EXCEPT
             !.dataBytes = IF in.written THEN @ + 2 * wrote ELSE @,
             !.writesOk = @ /\ in.written,
             !.state = IF s2.recordingFileOpen THEN "open" ELSE "closed"]

\* the answers the handler of s may get in one tick; written is what
\* recordingFile.write gives back when there is a sample to write
HandlerInputs_T7(s) ==
  CASE s.currentState = "INIT" ->
         {[Answers EXCEPT !.sd = a, !.audio = b, !.wifi = c] :
            a \in (IF s.sdInitialized THEN {TRUE} ELSE BOOLEAN),
            b \in (IF s.audioInitialized THEN {TRUE} ELSE BOOLEAN),
            c \in (IF s.wifiInitialized THEN {TRUE} ELSE BOOLEAN)}
    [] s.currentState = "LISTENING" ->
         {[Answers EXCEPT !.frame = f, !.dir = a] :
            f \in ListeningFrames,
            a \in (IF s.stateStartTimeAge > UPLOAD_IDLE_T7 THEN BOOLEAN ELSE {TRUE})}
    [] s.currentState = "RECORDING" ->
         {in \in {[Answers EXCEPT !.opened = a, !.stream = r, !.written = w] :
                     a \in (IF s.recordingActive THEN {TRUE} ELSE BOOLEAN),
                     r \in RecordingStreams, w \in BOOLEAN} :
            in.written \/ SamplesWritten_T7(s, in) > 0}
    [] s.currentState = "UPLOADING" ->
         {[Answers EXCEPT !.dir = a, !.readable = b, !.accepted = c, !.renamed = e] :
            a \in BOOLEAN, b \in BOOLEAN, c \in BOOLEAN, e \in BOOLEAN}
    [] OTHER -> {Answers}

\* a call that is not about WiFi failed in this tick
Faulty(in) ==
  \/ ~in.sd \/ ~in.audio \/ ~in.dir \/ ~in.opened \/ ~in.readable \/ ~in.accepted
  \/ ~in.written

Commands == {"none", "i", "l", "r", "u", "e"}

\* every variable Test 7 has no use for
otherT7 == <<lastUploadCheckAge, lastMemoryCheckAge, lastWiFiRetryAge, errorCount,
             initStep, uploadSessionActive, filesUploaded, consecutiveDetections,
             vadTriggerCount, happyPath, loopBeat, t10History, vadHistory,
             uploadRetryCount, uploadHistory, mainOnly, noiseVars, recorderVars>>

\* one iteration of loop() of Test 7: the serial command if any, then the handler.
\* A tick that would create more recordings than the model has names for is left out.
loop_T7 ==
  /\ \E d \in TickDeltas, radio \in BOOLEAN, cmd \in Commands :
       LET s0 == [Tick_T7(State_T7, d) EXCEPT !.wifiStatus = radio]
           s1 == handleCommand(s0, cmd)
       IN \E in \in HandlerInputs_T7(s1) :
            LET s2 == handleCurrentState_T7(s1, in)
            IN /\ s2.recordingCount <= MaxFiles
               /\ Becomes_T7(s2)
               /\ nonWifiFault' = (nonWifiFault \/ Faulty(in) \/ cmd # "none")
               /\ writeFailed' = ~in.written
               /\ lastFile' = FileAfter_T7(lastFile, s1, in, s2)
               /\ initFailureCode' =
                    IF InitFailure_T7(s1, in) = "none" THEN initFailureCode
                    ELSE [initFailureCode EXCEPT ![InitFailure_T7(s1, in)] = s2.errorCode]
  /\ UNCHANGED otherT7

NextT7 == loop_T7

SpecT7 == Init /\ [][NextT7]_vars

-----------------------------------------------------------------------------
(* Main firmware: setup() and loop() over audio_recorder.cpp, led_control.cpp, *)
(* voice_detection.cpp, sd_manager.cpp and wifi_sync.cpp.                      *)
(*                                                                             *)
(* power_management.h declares isUSBConnected, getBatteryPercentage,           *)
(* initializePowerManagement, enterLightSleep and enterDeepSleep and the       *)
(* repository holds no implementation: what they return is an input of the     *)
(* iteration, light sleep changes no variable, and deep sleep ends with the    *)
(* chip starting again.  detectVoiceActivity compares the RMS and zero         *)
(* crossing rate of the microphone samples with a floating noise floor; its    *)
(* result is an input as well, false while the detector is not initialized.    *)
(* lastActivityTime only decides on light sleep and is left out.               *)

MAX_RECORDING_DURATION_MS == 5 * 60 * 1000
SILENCE_TIMEOUT_MS == 3 * 1000
LOW_BATTERY_THRESHOLD == 10
CRITICAL_BATTERY_THRESHOLD == 5
UPLOAD_ATTEMPT_GAP == 30000
ERROR_RETRY_PERIOD == 10000
\* one iteration of loop() in ERROR: delay(1000) of the handler, delay(10) of loop()
ERROR_LOOP_MS == 1000 + 10

\* the time one iteration of loop() takes outside ERROR
MainTicks == {160000}
\* millis() % 10000 when ERROR is entered or a recovery attempt has failed
EntryPhases == {8990, 5}
\* what getBatteryPercentage() may return
BatteryLevels == {80, 7, 3}
BatteryNow == IF happyPath THEN {80} ELSE BatteryLevels

\* the globals of the firmware, the statics of its modules and the two directories
State_Main ==
  [currentState |-> currentState, usbConnected |-> usbConnected, ledMode |-> ledMode,
   sdInitialized |-> sdInitialized, vadInitialized |-> vadInitialized,
   recordingActive |-> recordingActive, recordingFileOpen |-> recordingFileOpen,
   recordingStartTimeAge |-> recordingStartTimeAge,
   silenceStartTimeAge |-> silenceStartTimeAge, recordingCount |-> recordingCount,
   pending |-> pending, uploaded |-> uploaded, uploadRetryCount |-> uploadRetryCount,
   wifiConnected |-> wifiConnected, wifiStatus |-> wifiStatus,
   lastUploadAttemptAge |-> lastUploadAttemptAge, clockPhase |-> clockPhase,
   recoveryAttempted |-> recoveryAttempted, quietAge |-> quietAge,
   stoppedOnSilence |-> stoppedOnSilence]

Becomes_Main(s) ==
  /\ currentState' = s.currentState
  /\ usbConnected' = s.usbConnected
  /\ ledMode' = s.ledMode
  /\ sdInitialized' = s.sdInitialized
  /\ vadInitialized' = s.vadInitialized
  /\ recordingActive' = s.recordingActive
  /\ recordingFileOpen' = s.recordingFileOpen
  /\ recordingStartTimeAge' = s.recordingStartTimeAge
  /\ silenceStartTimeAge' = s.silenceStartTimeAge
  /\ recordingCount' = s.recordingCount
  /\ pending' = s.pending
  /\ uploaded' = s.uploaded
  /\ uploadRetryCount' = s.uploadRetryCount
  /\ wifiConnected' = s.wifiConnected
  /\ wifiStatus' = s.wifiStatus
  /\ lastUploadAttemptAge' = s.lastUploadAttemptAge
  /\ clockPhase' = s.clockPhase
  /\ recoveryAttempted' = s.recoveryAttempted
  /\ quietAge' = s.quietAge
  /\ stoppedOnSilence' = s.stoppedOnSilence

\* the firmware when the chip starts: the initializers of the globals and statics;
\* the files on the card stay
Boot_Main(s) ==
  [currentState |-> "IDLE", usbConnected |-> FALSE, ledMode |-> "LED_OFF",
   sdInitialized |-> FALSE, vadInitialized |-> FALSE, recordingActive |-> FALSE,
   recordingFileOpen |-> FALSE, recordingStartTimeAge |-> 0,
   silenceStartTimeAge |-> Unset, recordingCount |-> s.recordingCount,
   pending |-> s.pending, uploaded |-> s.uploaded, uploadRetryCount |-> 0,
   wifiConnected |-> FALSE, wifiStatus |-> FALSE, lastUploadAttemptAge |-> 0,
   clockPhase |-> Unset, recoveryAttempted |-> FALSE, quietAge |-> Unset,
   stoppedOnSilence |-> FALSE]

\* millis() % 10000 at the next call of handleErrorState.  ERROR_LOOP_MS is a
\* multiple of 10, so the last digit of the clock stays what it was; a clock whose
\* last digit is not 0 is at no multiple of 10000, and only that digit is kept.
AtHandler(phase) ==
  IF phase % 10 # 0 THEN phase % 10 ELSE (phase + ERROR_LOOP_MS) % ERROR_RETRY_PERIOD

\* millis() moves on by one iteration.  recordingStartTime is forgotten outside
\* RECORDING: handleListeningState overwrites it before it is read again.
Tick_Main(s, d) ==
  LET e == IF s.currentState = "ERROR" THEN ERROR_LOOP_MS ELSE d
  IN [s EXCEPT
        !.recordingStartTimeAge =
           IF s.currentState = "RECORDING" THEN Elapse(@, e, MAX_RECORDING_DURATION_MS)
           ELSE 0,
        !.silenceStartTimeAge =
           IF @ = Unset THEN Unset ELSE Elapse(@, e, SILENCE_TIMEOUT_MS),
        !.lastUploadAttemptAge = Elapse(@, e, UPLOAD_ATTEMPT_GAP),
        !.clockPhase = IF s.currentState = "ERROR" THEN AtHandler(@) ELSE Unset,
        !.recoveryAttempted = FALSE,
        !.quietAge = IF s.currentState = "RECORDING" /\ @ # Unset
                       THEN Elapse(@, e, SILENCE_TIMEOUT_MS) ELSE Unset,
        !.stoppedOnSilence = FALSE]

\* setLEDMode
setLEDMode(s, mode) == [s EXCEPT !.ledMode = mode]

\* initializeSystem that leaves the LED solid when a step fails
initializeSystem_SolidOnFailure(s, failed) ==
  LET s1 == setLEDMode([s EXCEPT !.ledMode = "LED_OFF"], "LED_SOLID")
  IN IF failed = "sd" THEN [ret |-> FALSE, state |-> s1]
     ELSE LET s2 == [s1 EXCEPT !.sdInitialized = TRUE]
          IN IF failed \in {"audio", "power"}
               THEN [ret |-> FALSE, state |-> s2]
               ELSE [ret |-> TRUE, state |-> [s2 EXCEPT !.vadInitialized = TRUE]]

\* initializeSystem: failed names the step that fails ("none": every step works)
initializeSystem(s, failed) ==
  LET s1 == setLEDMode([s EXCEPT !.ledMode = "LED_OFF"], "LED_SOLID")
  IN IF failed = "sd"
       THEN [ret |-> FALSE, state |-> setLEDMode(s1, "LED_ERROR")]
     ELSE LET s2 == [s1 EXCEPT !.sdInitialized = TRUE]
          IN IF failed \in {"audio", "power"}
               THEN [ret |-> FALSE, state |-> setLEDMode(s2, "LED_ERROR")]
               ELSE [ret |-> TRUE, state |-> [s2 EXCEPT !.vadInitialized = TRUE]]

\* detectVoiceActivity
detectVoiceActivity(s, voice) == s.vadInitialized /\ voice

\* startRecording: start is "ok", "open" (SD.open fails) or "header" (the header
\* write or i2s_start fails); the file exists once SD.open has worked
startRecording(s, start) ==
  LET n == s.recordingCount + 1
  IN IF s.recordingActive \/ start = "open"
       THEN [ret |-> FALSE, state |-> s]
     ELSE LET s1 == [s EXCEPT !.recordingCount = n, !.pending = @ \cup {n}]
          IN IF start = "header"
               THEN [ret |-> FALSE, state |-> s1]
               ELSE [ret |-> TRUE,
                     state |-> [s1 EXCEPT !.recordingActive = TRUE,
                                          !.recordingFileOpen = TRUE]]

\* continueRecording: read says whether i2s_read and the write of its bytes worked
continueRecording(s, read) == s.recordingActive /\ read

\* stopRecording
stopRecording(s) ==
  IF ~s.recordingActive THEN s
  ELSE [s EXCEPT !.recordingActive = FALSE, !.recordingFileOpen = FALSE]

\* shouldStartUpload: dir says whether /recordings can be opened
shouldStartUpload(s, dir) ==
  [ret |-> /\ s.wifiStatus
           /\ ~(s.lastUploadAttemptAge < UPLOAD_ATTEMPT_GAP)
           /\ s.sdInitialized /\ dir /\ s.pending # {},
   state |-> isWiFiConnected_sync(s)]

\* performUpload as the firmware calls it: getUnuploadedFiles and
\* markFileAsUploaded refuse while the card is not initialized, and
\* lastUploadAttempt is set once the files have been gone through
performUpload_Main(s, in) ==
  LET listed == in.dir /\ s.sdInitialized
      r == performUpload(s, in.connected, listed, in.sent,
                         [f \in Files |-> in.renamed[f] /\ s.sdInitialized])
  IN IF (s.wifiStatus \/ in.connected) /\ listed
       THEN [r.state EXCEPT !.lastUploadAttemptAge = 0]
       ELSE r.state

\* handleListeningState
handleListeningState_Main(s, in) ==
  IF detectVoiceActivity(s, in.voice)
    THEN LET r == startRecording(s, in.start)
         IN IF r.ret
              THEN [setLEDMode([r.state EXCEPT !.currentState = "RECORDING"],
                               "LED_RECORDING")
                      EXCEPT !.recordingStartTimeAge = 0]
              ELSE setLEDMode([r.state EXCEPT !.currentState = "ERROR"], "LED_ERROR")
    ELSE s

\* handleRecordingState
handleRecordingState_Main(s, in) ==
  IF ~continueRecording(s, in.read)
    THEN setLEDMode([stopRecording(s) EXCEPT !.currentState = "ERROR"], "LED_ERROR")
  ELSE IF s.recordingStartTimeAge > MAX_RECORDING_DURATION_MS
    THEN setLEDMode([stopRecording(s) EXCEPT !.currentState = "LISTENING"],
                    "LED_LISTENING")
  ELSE IF ~detectVoiceActivity(s, in.voice)
    THEN LET q == [s EXCEPT !.quietAge = IF @ = Unset THEN 0 ELSE @]
         IN IF q.silenceStartTimeAge = Unset
              THEN [q EXCEPT !.silenceStartTimeAge = 0]
            ELSE IF q.silenceStartTimeAge > SILENCE_TIMEOUT_MS
              THEN [setLEDMode([stopRecording(q) EXCEPT !.currentState = "LISTENING"],
                               "LED_LISTENING")
                      EXCEPT !.silenceStartTimeAge = Unset, !.stoppedOnSilence = TRUE]
            ELSE q
  ELSE [s EXCEPT !.quietAge = Unset]

\* handleUploadingState
handleUploadingState_Main(s, in) ==
  IF ~s.usbConnected
    THEN setLEDMode([s EXCEPT !.currentState = "LISTENING"], "LED_LISTENING")
    ELSE setLEDMode([performUpload_Main(s, in) EXCEPT !.currentState = "LISTENING"],
                    "LED_LISTENING")

\* handleLowBatteryState, but for the deep sleep below the critical level
handleLowBatteryState(s) ==
  IF s.usbConnected
    THEN setLEDMode([s EXCEPT !.currentState = "LISTENING"], "LED_LISTENING")
    ELSE s

\* handleErrorState: recovery is tried when the clock reads a multiple of 10000
handleErrorState_Main(s, in) ==
  IF s.clockPhase % ERROR_RETRY_PERIOD = 0
    THEN LET r == initializeSystem([s EXCEPT !.recoveryAttempted = TRUE], in.init)
         IN IF r.ret
              THEN setLEDMode([r.state EXCEPT !.currentState = "LISTENING"],
                              "LED_LISTENING")
              ELSE r.state
    ELSE s

\* the switch of loop()
handleCurrentState_Main(s, in) ==
  CASE s.currentState = "LISTENING" -> handleListeningState_Main(s, in)
    [] s.currentState = "RECORDING" -> handleRecordingState_Main(s, in)
    [] s.currentState = "UPLOADING" -> handleUploadingState_Main(s, in)
    [] s.currentState = "LOW_BATTERY" -> handleLowBatteryState(s)
    [] OTHER -> handleErrorState_Main(s, in)

\* the upload check at the end of loop()
UploadCheck(s, dir) ==
  IF s.usbConnected /\ s.currentState \notin {"UPLOADING", "RECORDING"}
    THEN LET r == shouldStartUpload(s, dir)
         IN IF r.ret
              THEN setLEDMode([r.state EXCEPT !.currentState = "UPLOADING"],
                              "LED_UPLOADING")
              ELSE r.state
    ELSE s

\* the battery check at the end of loop()
BatteryCheck(s, battery) ==
  IF battery < LOW_BATTERY_THRESHOLD /\ ~s.usbConnected
    THEN setLEDMode([s EXCEPT !.currentState = "LOW_BATTERY"], "LED_LOW_BATTERY")
    ELSE s

\* the answers of one iteration when every call succeeds and nobody speaks
Answers_Main ==
  [voice |-> FALSE, start |-> "ok", read |-> TRUE, dir |-> TRUE, connected |-> TRUE,
   sent |-> [f \in Files |-> TRUE], renamed |-> [f \in Files |-> TRUE],
   init |-> "none"]

InitFailures == IF happyPath THEN {"none"} ELSE {"none", "sd", "audio", "power"}
StartOutcomes == IF happyPath THEN {"ok"} ELSE {"ok", "open", "header"}
FileAnswers(dir) == IF happyPath THEN {[f \in Files |-> TRUE]} ELSE AnswersFor(dir)

\* /recordings is looked at only while USB power is there
DirAnswers(s) == IF s.usbConnected THEN Outcomes ELSE {TRUE}

\* the answers the handler of s and the upload check may get in one iteration;
\* a call that is not made has no answer to choose
HandlerInputs_Main(s) ==
  CASE s.currentState = "LISTENING" ->
         {[Answers_Main EXCEPT !.dir = b] : b \in DirAnswers(s)}
         \cup (IF s.vadInitialized
                THEN {[Answers_Main EXCEPT !.voice = TRUE, !.start = a, !.dir = b] :
                        a \in StartOutcomes, b \in DirAnswers(s)}
                ELSE {})
    [] s.currentState = "RECORDING" ->
         {[Answers_Main EXCEPT !.voice = v, !.read = a] :
            v \in BOOLEAN, a \in Outcomes}
    [] s.currentState = "UPLOADING" ->
         IF s.usbConnected
           THEN {[Answers_Main EXCEPT !.dir = a, !.connected = b, !.sent = c,
                                      !.renamed = e] :
                   a \in Outcomes, b \in (IF s.wifiStatus THEN {TRUE} ELSE Outcomes),
                   c \in FileAnswers(s.pending), e \in FileAnswers(s.pending)}
           ELSE {Answers_Main}
    [] s.currentState = "ERROR" ->
         {[Answers_Main EXCEPT !.init = a, !.dir = b] :
            a \in (IF s.clockPhase = 0 THEN InitFailures ELSE {"none"}),
            b \in DirAnswers(s)}
    [] OTHER -> {[Answers_Main EXCEPT !.dir = b] : b \in DirAnswers(s)}

\* WiFi.status() is read only while USB power is there
RadioAnswers(usb) == IF usb THEN Outcomes ELSE {TRUE}

\* millis() % 10000 after the iteration that led from s0 to s: what it was at
\* the handler while the firmware waits in ERROR, whatever the clock shows when
\* ERROR is entered or initializeSystem has run, and not kept outside ERROR
PhasesAfter(s0, s) ==
  IF s.currentState # "ERROR" THEN {Unset}
  ELSE IF s0.currentState = "ERROR" /\ s0.clockPhase # 0 THEN {s0.clockPhase}
  ELSE EntryPhases

\* every variable the main firmware has no use for
otherMain == <<stateStartTimeAge, lastUploadCheckAge, lastMemoryCheckAge,
               lastWiFiRetryAge, errorCount, initStep, samplesRecorded,
               uploadSessionActive, filesUploaded, errorStartTimeAge,
               consecutiveDetections, vadTriggerCount, happyPath, t10History,
               vadHistory, uploadHistory, t7Only, noiseVars, recorderVars>>

\* setup()
setup_Main ==
  /\ currentState = "IDLE"
  /\ \E failed \in InitFailures :
       LET r == initializeSystem(State_Main, failed)
           s == IF r.ret
                  THEN setLEDMode([r.state EXCEPT !.currentState = "LISTENING"],
                                  "LED_LISTENING")
                  ELSE [r.state EXCEPT !.currentState = "ERROR"]
       IN \E phase \in PhasesAfter(State_Main, s) :
            Becomes_Main([s EXCEPT !.clockPhase = phase])
  /\ loopBeat' = (happyPath /\ ~loopBeat)
  /\ UNCHANGED otherMain

\* one iteration of loop().  Below the critical battery level handleLowBatteryState
\* calls enterDeepSleep and the chip starts again.  An iteration that would create
\* more recordings than the model has names for is left out.
loop_Main ==
  /\ currentState # "IDLE"
  /\ \E d \in MainTicks, usb \in BOOLEAN, battery \in BatteryNow :
     \E radio \in RadioAnswers(usb) :
       LET s0 == [Tick_Main(State_Main, d) EXCEPT !.usbConnected = usb,
                                                  !.wifiStatus = radio]
       IN IF s0.currentState = "LOW_BATTERY" /\ ~usb
             /\ battery < CRITICAL_BATTERY_THRESHOLD
            THEN Becomes_Main(Boot_Main(s0))
            ELSE \E in \in HandlerInputs_Main(s0) :
                   LET s1 == handleCurrentState_Main(s0, in)
                       s2 == UploadCheck(s1, in.dir)
                       s3 == BatteryCheck(s2, battery)
                   IN /\ s3.recordingCount <= MaxFiles
                      /\ \E phase \in PhasesAfter(s0, s3) :
                           Becomes_Main([s3 EXCEPT !.clockPhase = phase])
  /\ loopBeat' = (happyPath /\ ~loopBeat)
  /\ UNCHANGED otherMain

\* the state before setup(): the initializers of the globals
InitMain ==
  /\ currentState = "IDLE"
  /\ InitGlobals

NextMain ==
  \/ setup_Main
  \/ loop_Main

SpecMain == InitMain /\ [][NextMain]_vars

NextMainLive ==
  \/ NextMain
  \/ beginHappyPath

\* setup() has run and loop() keeps being called
SpecMainLive == InitMain /\ [][NextMainLive]_vars /\ WF_loopBeat(LoopCalled)

-----------------------------------------------------------------------------
(* voice_detection.cpp on its own: the adaptive noise floor.                  *)
(*                                                                            *)
(* noiseFloor and currentAudioLevel are floats; the model holds them in       *)
(* hundredths and rounds every result down to a hundredth.  A frame is a      *)
(* pattern of samples repeated to fill what i2s_read delivered.               *)

Tile(pattern, reps) == [pattern |-> pattern, reps |-> reps]

\* what i2s_read can put into vadBuffer
FwNoRead == Tile(<<0>>, 0)
FwSilence == Tile(<<0>>, VAD_SAMPLE_WINDOW)
FwSentinels == Tile(<<1, -1, 0, 0>>, VAD_SAMPLE_WINDOW \div 4)
FwRoom == Tile(<<110, -110>>, VAD_SAMPLE_WINDOW \div 2)
FwHiss == Tile(<<140, -140>>, VAD_SAMPLE_WINDOW \div 2)
FwVoice == Tile(<<300, 300, -300, -300>>, VAD_SAMPLE_WINDOW \div 4)

FirmwareFrames == {FwNoRead, FwSilence, FwSentinels, FwRoom, FwHiss, FwVoice}

\* every sample of the frame is 0, 1 or -1
SentinelOnly(frame) ==
  frame.reps > 0 /\ \A i \in 1 .. Len(frame.pattern) : ~IsValidSample(frame.pattern[i])

SamplesIn(frame) == Len(frame.pattern) * frame.reps

\* the largest r in lo .. hi with r * r <= x
RECURSIVE RootBetween(_, _, _)
RootBetween(x, lo, hi) ==
  IF lo >= hi THEN lo
  ELSE LET mid == (lo + hi + 1) \div 2
       IN IF mid * mid <= x THEN RootBetween(x, mid, hi)
          ELSE RootBetween(x, lo, mid - 1)

RECURSIVE SquaresOf(_)
SquaresOf(pattern) ==
  IF pattern = <<>> THEN 0
  ELSE Head(pattern) * Head(pattern) + SquaresOf(Tail(pattern))

\* calculateRMS, in hundredths: sum / count is the mean square of the pattern
calculateRMS(frame) ==
  IF SamplesIn(frame) <= 0 THEN 0
  ELSE RootBetween(((Centi * SquaresOf(frame.pattern)) \div Len(frame.pattern)) * Centi,
                   0, 46340)

\* the test of calculateZeroCrossingRate on two neighbours
Crossing(a, b) == (a >= 0 /\ b < 0) \/ (a < 0 /\ b >= 0)

\* int crossings of calculateZeroCrossingRate: inside the pattern, and where one
\* copy of the pattern meets the next
Crossings(frame) ==
  LET k == Len(frame.pattern)
      inside == Cardinality({i \in 2 .. k : Crossing(frame.pattern[i - 1],
                                                      frame.pattern[i])})
      seam == IF Crossing(frame.pattern[k], frame.pattern[1]) THEN 1 ELSE 0
  IN inside * frame.reps + seam * (frame.reps - 1)

\* the statics of voice_detection.cpp.  runningAverage and sampleCount are
\* written and never read.
State_VAD ==
  [noiseFloor |-> noiseFloor, currentAudioLevel |-> currentAudioLevel,
   lastNoiseUpdateAge |-> lastNoiseUpdateAge, vadInitialized |-> vadInitialized]

Becomes_VAD(s) ==
  /\ noiseFloor' = s.noiseFloor
  /\ currentAudioLevel' = s.currentAudioLevel
  /\ lastNoiseUpdateAge' = s.lastNoiseUpdateAge
  /\ vadInitialized' = s.vadInitialized

\* millis() moves on by d
Tick_VAD(s, d) ==
  [s EXCEPT !.lastNoiseUpdateAge = Elapse(@, d, NOISE_UPDATE_PERIOD - 1)]

\* MAX(a, b)
MAX(a, b) == IF a > b THEN a ELSE b

\* updateNoiseFloor without the clamp to VAD_NOISE_FLOOR
\* updateNoiseFloor without the test of the level against 1.5 times the floor
updateNoiseFloor_AnyLevel(s) ==
  IF s.lastNoiseUpdateAge < NOISE_UPDATE_PERIOD THEN s
  ELSE [s EXCEPT !.noiseFloor = MAX((99 * @ + s.currentAudioLevel) \div 100,
                                    VAD_NOISE_FLOOR * Centi),
                 !.lastNoiseUpdateAge = 0]

updateNoiseFloor_NoClamp(s) ==
  IF s.lastNoiseUpdateAge < NOISE_UPDATE_PERIOD THEN s
  ELSE [s EXCEPT !.noiseFloor = IF 2 * s.currentAudioLevel < 3 * @
                                  THEN (99 * @ + s.currentAudioLevel) \div 100
                                  ELSE @,
                 !.lastNoiseUpdateAge = 0]

\* updateNoiseFloor
updateNoiseFloor(s) ==
  IF s.lastNoiseUpdateAge < NOISE_UPDATE_PERIOD THEN s
  ELSE LET adapted == IF 2 * s.currentAudioLevel < 3 * s.noiseFloor
                        THEN (99 * s.noiseFloor + s.currentAudioLevel) \div 100
                        ELSE s.noiseFloor
       IN [s EXCEPT !.noiseFloor = MAX(adapted, VAD_NOISE_FLOOR * Centi),
                    !.lastNoiseUpdateAge = 0]

\* detectVoiceActivity on the frame i2s_read delivers (FwNoRead: an error or no byte)
detectVoiceActivity_VAD(s, frame) ==
  IF ~s.vadInitialized \/ SamplesIn(frame) = 0 THEN [ret |-> FALSE, state |-> s]
  ELSE LET rms == calculateRMS(frame)
           count == SamplesIn(frame)
           crossings == IF count <= 1 THEN 0 ELSE Crossings(frame)
           s1 == updateNoiseFloor([s EXCEPT !.currentAudioLevel = rms])
           threshold == s1.noiseFloor * VAD_SENSITIVITY
       IN [ret |-> /\ rms > threshold
                   /\ 10 * crossings > count - 1
                   /\ 10 * crossings < 8 * (count - 1),
           state |-> s1]

\* calibrateVAD: okReads of the CALIBRATION_READS reads deliver the frame room;
\* the reads take three seconds
calibrateVAD(s, room, okReads) ==
  LET s1 == Tick_VAD(s, CALIBRATION_READS * 100)
      sum == okReads * calculateRMS(room)
  IN IF okReads > 0
       THEN [s1 EXCEPT !.noiseFloor = MAX(((sum \div okReads) * 12) \div 10,
                                          VAD_NOISE_FLOOR * Centi)]
       ELSE s1

\* initializeVAD
initializeVAD(s, room, okReads) ==
  calibrateVAD([s EXCEPT !.noiseFloor = VAD_NOISE_FLOOR * Centi,
                         !.currentAudioLevel = 0,
                         !.lastNoiseUpdateAge = 0,
                         !.vadInitialized = TRUE], room, okReads)

\* the time between two calls, and what a calibration can read
NoiseTicks == {10, 100}
OkReads(room) == IF room = FwNoRead THEN {0} ELSE {1, CALIBRATION_READS}

\* every variable but the statics of voice_detection.cpp and their history
notNoise == <<currentState, stateStartTimeAge, lastUploadCheckAge, lastMemoryCheckAge,
              lastWiFiRetryAge, wifiConnected, wifiStatus, errorCount, initStep,
              recordingActive, recordingFileOpen, recordingStartTimeAge,
              samplesRecorded, uploadSessionActive, filesUploaded, errorStartTimeAge,
              consecutiveDetections, vadTriggerCount, happyPath, loopBeat, t10History,
              vadHistory, pending, uploaded, uploadRetryCount, uploadHistory,
              sdInitialized, recordingCount, t7Only, usbConnected, ledMode,
              silenceStartTimeAge, lastUploadAttemptAge, clockPhase,
              recoveryAttempted, quietAge, stoppedOnSilence, recorderVars>>

\* history of one call
Called(name, frame, detected, age) ==
  /\ vadCalls' = vadCalls + 1
  /\ lastDetect' = [call |-> name, frame |-> frame, floorBefore |-> noiseFloor,
                    ageBefore |-> age,
                    detected |-> detected]

initializeVAD_Call ==
  /\ vadCalls < MaxVadCalls
  /\ \E d \in NoiseTicks, room \in FirmwareFrames :
       \E okReads \in OkReads(room) :
         /\ Becomes_VAD(initializeVAD(Tick_VAD(State_VAD, d), room, okReads))
         /\ Called("initializeVAD", FwNoRead, FALSE,
                   Tick_VAD(State_VAD, d).lastNoiseUpdateAge)
  /\ UNCHANGED notNoise

calibrateVAD_Call ==
  /\ vadCalls < MaxVadCalls
  /\ \E d \in NoiseTicks, room \in FirmwareFrames :
       \E okReads \in OkReads(room) :
         /\ Becomes_VAD(calibrateVAD(Tick_VAD(State_VAD, d), room, okReads))
         /\ Called("calibrateVAD", room, FALSE, Tick_VAD(State_VAD, d).lastNoiseUpdateAge)
  /\ UNCHANGED notNoise

detectVoiceActivity_Call ==
  /\ vadCalls < MaxVadCalls
  /\ \E d \in NoiseTicks, frame \in FirmwareFrames :
       LET r == detectVoiceActivity_VAD(Tick_VAD(State_VAD, d), frame)
       IN /\ Becomes_VAD(r.state)
          /\ Called("detectVoiceActivity", frame, r.ret,
                    Tick_VAD(State_VAD, d).lastNoiseUpdateAge)
  /\ UNCHANGED notNoise

updateNoiseFloor_Call ==
  /\ vadCalls < MaxVadCalls
  /\ \E d \in NoiseTicks :
       /\ Becomes_VAD(updateNoiseFloor(Tick_VAD(State_VAD, d)))
       /\ Called("updateNoiseFloor", FwNoRead, FALSE,
                 Tick_VAD(State_VAD, d).lastNoiseUpdateAge)
  /\ UNCHANGED notNoise

NextNoise ==
  \/ initializeVAD_Call
  \/ calibrateVAD_Call
  \/ detectVoiceActivity_Call
  \/ updateNoiseFloor_Call

SpecNoise == Init /\ [][NextNoise]_vars

-----------------------------------------------------------------------------
(* audio_recorder.cpp on its own: one recording session after another.        *)
(*                                                                            *)
(* recording is held in recordingActive, the state of recordingFile in         *)
(* recordingFileOpen and recordingStartTime as its age.  sinkBytes counts the  *)
(* bytes the card took after the header of the current file.                   *)

\* the statics of audio_recorder.cpp and the file they write to
State_AR ==
  [recording |-> recordingActive, fileOpen |-> recordingFileOpen,
   bytesWritten |-> bytesWritten, recordingStartTimeAge |-> recordingStartTimeAge,
   sinkBytes |-> sinkBytes]

Becomes_AR(s) ==
  /\ recordingActive' = s.recording
  /\ recordingFileOpen' = s.fileOpen
  /\ bytesWritten' = s.bytesWritten
  /\ recordingStartTimeAge' = s.recordingStartTimeAge
  /\ sinkBytes' = s.sinkBytes

\* millis() moves on by d
Tick_AR(s, d) ==
  [s EXCEPT !.recordingStartTimeAge =
              IF s.recording THEN Elapse(@, d, MAX_RECORDING_DURATION_MS) ELSE @]

\* startRecording without the test of the recording flag
startRecording_Restart(s, start) ==
  IF start \in {"open", "header", "i2s"}
    THEN [ret |-> FALSE, state |-> [s EXCEPT !.fileOpen = FALSE, !.sinkBytes = 0],
          wrote |-> 0]
    ELSE [ret |-> TRUE,
          state |-> [s EXCEPT !.fileOpen = TRUE, !.sinkBytes = 0, !.recording = TRUE,
                              !.bytesWritten = 0, !.recordingStartTimeAge = 0],
          wrote |-> 0]

\* startRecording: start is "ok", or the step that fails: "open" (SD.open),
\* "header" (the write of the header) or "i2s" (i2s_start)
startRecording_AR(s, start) ==
  IF s.recording THEN [ret |-> FALSE, state |-> s, wrote |-> 0]
  ELSE IF start \in {"open", "header", "i2s"}
    THEN [ret |-> FALSE, state |-> [s EXCEPT !.fileOpen = FALSE, !.sinkBytes = 0],
          wrote |-> 0]
  ELSE [ret |-> TRUE,
        state |-> [s EXCEPT !.fileOpen = TRUE, !.sinkBytes = 0, !.recording = TRUE,
                            !.bytesWritten = 0, !.recordingStartTimeAge = 0],
        wrote |-> 0]

\* the bytes recordingFile.write takes of bytesRead
Taken(bytesRead, card) ==
  CASE card = "all" -> bytesRead
    [] card = "part" -> bytesRead \div 2
    [] OTHER -> 0

\* continueRecording: readOk is err == ESP_OK, frame what i2s_read put into
\* audioBuffer, card how much of it the card takes
continueRecording_AR(s, readOk, frame, card) ==
  IF ~s.recording \/ ~readOk THEN [ret |-> FALSE, state |-> s, wrote |-> 0]
  ELSE LET bytesRead == 2 * CountSamples(frame)
           written == Taken(bytesRead, card)
           s1 == [s EXCEPT !.sinkBytes = @ + written]
       IN IF bytesRead = 0 THEN [ret |-> TRUE, state |-> s, wrote |-> 0]
          ELSE IF written # bytesRead
            THEN [ret |-> FALSE, state |-> s1, wrote |-> written]
          ELSE [ret |-> TRUE, state |-> [s1 EXCEPT !.bytesWritten = @ + written],
                wrote |-> written]

\* stopRecording closing the file and leaving the recording flag set
stopRecording_KeepsFlag(s, headerOk) ==
  IF ~s.recording THEN [ret |-> FALSE, state |-> s, wrote |-> 0]
  ELSE [ret |-> headerOk, state |-> [s EXCEPT !.fileOpen = FALSE], wrote |-> 0]

\* stopRecording: headerOk says whether the rewritten header was taken whole
stopRecording_AR(s, headerOk) ==
  IF ~s.recording THEN [ret |-> FALSE, state |-> s, wrote |-> 0]
  ELSE [ret |-> headerOk,
        state |-> [s EXCEPT !.fileOpen = FALSE, !.recording = FALSE],
        wrote |-> 0]

\* what i2s_read delivers to continueRecording: nothing, a buffer of valid
\* samples, a buffer with 24 sentinel values among them, a buffer of zeros
RecorderFrames ==
  {<<>>, <<Run(100, BUFFER_SIZE)>>,
   <<Run(0, 4), Run(100, 500), Run(-1, 10), Run(-100, 500), Run(1, 10)>>,
   <<Run(0, BUFFER_SIZE)>>}

RecorderTicks == {10, 1000}

\* every variable but those of audio_recorder.cpp
notRecorder == <<currentState, stateStartTimeAge, lastUploadCheckAge, lastMemoryCheckAge,
                 lastWiFiRetryAge, wifiConnected, wifiStatus, errorCount, initStep,
                 samplesRecorded, uploadSessionActive, filesUploaded, errorStartTimeAge,
                 consecutiveDetections, vadTriggerCount, happyPath, loopBeat, t10History,
                 vadHistory, pending, uploaded, uploadRetryCount, uploadHistory,
                 sdInitialized, recordingCount, t7Only, mainOnly, noiseVars>>

\* history of one call: r is what it returned, s the statics before it
RecorderCalled(name, frame, s, r, headerTaken) ==
  /\ Becomes_AR(r.state)
  /\ recorderCalls' = recorderCalls + 1
  /\ lastRecorderCall' =
       [call |-> name, ret |-> r.ret, frame |-> frame, wrote |-> r.wrote, before |-> s,
        headerTaken |-> headerTaken,
        afterStop |-> CASE lastRecorderCall.call = "stopRecording" -> TRUE
                        [] lastRecorderCall.call = "startRecording"
                           /\ lastRecorderCall.ret -> FALSE
                        [] OTHER -> lastRecorderCall.afterStop]

startRecording_Call ==
  /\ recorderCalls < MaxRecorderCalls
  /\ \E d \in RecorderTicks, start \in {"ok", "open", "header", "i2s"} :
       LET s == Tick_AR(State_AR, d)
       IN RecorderCalled("startRecording", <<>>, s, startRecording_AR(s, start), TRUE)
  /\ UNCHANGED notRecorder

continueRecording_Call ==
  /\ recorderCalls < MaxRecorderCalls
  /\ \E d \in RecorderTicks, readOk \in BOOLEAN, frame \in RecorderFrames,
        card \in {"all", "part", "none"} :
       LET s == Tick_AR(State_AR, d)
       IN RecorderCalled("continueRecording", frame, s,
                         continueRecording_AR(s, readOk, frame, card), TRUE)
  /\ UNCHANGED notRecorder

stopRecording_Call ==
  /\ recorderCalls < MaxRecorderCalls
  /\ \E d \in RecorderTicks, headerOk \in BOOLEAN :
       LET s == Tick_AR(State_AR, d)
       IN RecorderCalled("stopRecording", <<>>, s, stopRecording_AR(s, headerOk),
                         headerOk)
  /\ UNCHANGED notRecorder

NextRecorder ==
  \/ startRecording_Call
  \/ continueRecording_Call
  \/ stopRecording_Call

SpecRecorder == Init /\ [][NextRecorder]_vars

-----------------------------------------------------------------------------
(* Properties *)

\* C1: in the Test 10 scheduler a recording session is open (recordingActive
\* and the recording file open) at a tick boundary only if the state is
\* RECORDING.
C1_SessionOnlyInRecording ==
  (recordingActive /\ recordingFileOpen) => currentState = "RECORDING"

\* C2: in the Test 10 scheduler the handler never moves from ERROR to INIT
\* before the cooldown has passed since ERROR was entered.
C2_NoRecoveryBeforeCooldown ==
  lastRecovery # Unset => lastRecovery >= ERROR_COOLDOWN_T10

\* C3: performAdvancedVAD returns true on a frame only if that frame and the
\* VAD_TRIGGER_COUNT - 1 analysed frames before it were all raw-positive; after
\* a raw-negative frame the consecutive counter is 0; and the raw sequence
\* T,T,F,T,T,T gives true exactly once, on the 6th frame.
Analysed(i) == {j \in 1..i : rawHistory[j] # "-"}

C3_Debounce ==
  /\ \A i \in 1..Len(vadResults) :
       vadResults[i] =>
         /\ rawHistory[i] = "T"
         /\ Cardinality(Analysed(i)) >= VAD_TRIGGER_COUNT
         /\ \A j \in Analysed(i) :
              Cardinality({k \in Analysed(i) : k >= j}) <= VAD_TRIGGER_COUNT
                => rawHistory[j] = "T"
  /\ (rawHistory # <<>> /\ rawHistory[Len(rawHistory)] = "F"
        => consecutiveDetections = 0)
  /\ (rawHistory = <<"T", "T", "F", "T", "T", "T">>
        => vadResults = <<FALSE, FALSE, FALSE, FALSE, FALSE, TRUE>>)

C3_Witness ==
  /\ rawHistory = <<"T", "T", "F", "T", "T", "T">>
  /\ vadResults[6]

\* C4: once errorCount has reached the ceiling, a tick that starts in ERROR
\* ends in ERROR, unless it is the manual reset.
C4_StaysInErrorAtCeiling ==
  [][restart_T10
     \/ (currentState = "ERROR" /\ errorCount >= ERROR_CEILING
           => currentState' = "ERROR")]_vars

\* C5: errorCount is incremented exactly once for each entry into ERROR: once
\* the handler has run in ERROR, the entry has been counted once (stated while
\* the counter is below the bound of the model).
C5_OneIncrementPerEntry ==
  (currentState = "ERROR" /\ sinceErrorEntry > 0 /\ errorCount < MaxErrorCount)
    => errorBumps = 1

\* C6: from every scheduler state other than ERROR with the error counter at its
\* ceiling, once every subsystem call succeeds and loop() keeps being called, the
\* scheduler reaches LISTENING.  (errorCount is the counter of Test 10; the main
\* firmware and Test 7 keep none.)
C6_ReachesListening ==
  (happyPath /\ (currentState = "ERROR" => errorCount < ERROR_CEILING))
    ~> (currentState = "LISTENING")

\* C7: a file whose upload has failed MAX_UPLOAD_RETRIES times is dropped: no
\* later activation attempts it again, so its failures never exceed the ceiling.
C7_DroppedAtCeiling ==
  \A f \in Files : failures[f] <= MAX_UPLOAD_RETRIES

\* C8: uploadRetryCount never exceeds MAX_UPLOAD_RETRIES.
C8_RetryCountWithinCeiling ==
  uploadRetryCount <= MAX_UPLOAD_RETRIES

\* C9: no recording is transferred to the endpoint more than once.
C9_TransferredAtMostOnce ==
  \A f \in Files : transfers[f] <= 1

\* C10: in the Test 7 scheduler, as long as no storage, audio or server call
\* has failed and no state was forced by a serial command, the state is never
\* ERROR, whatever the WiFi status does.
C10_WiFiNeverFatal ==
  ~nonWifiFault => currentState # "ERROR"

\* C11: when the radio drops while performUpload drains its batch, no upload of
\* that batch is attempted after the loss.
C11_NoAttemptAfterLoss ==
  afterLoss = 0

\* C12: one activation of the upload (one call of performUpload) uploads at most
\* UPLOAD_BATCH_SIZE files, however many are pending.
C12_BatchWithinSize ==
  batchUploads <= UPLOAD_BATCH_SIZE

\* C13: a tick that ends a recording (sample target reached or time cap exceeded)
\* closes the file and leaves RECORDING for UPLOADING when the connection is up
\* and for LISTENING when it is not.
C13_NextStateAfterRecording ==
  [][restart_T10
     \/ (currentState = "RECORDING" /\ recordingActive /\ ~recordingActive'
          => /\ ~recordingFileOpen'
             /\ currentState' = IF wifiConnected' THEN "UPLOADING" ELSE "LISTENING")]_vars

\* C14: a tick of RECORDING in which a write of sample bytes fails ends in ERROR
\* with the session closed.
C14_WriteFailureAbandons ==
  writeFailed => (currentState = "ERROR" /\ ~recordingFileOpen)

\* C15: the upload check moves the scheduler into UPLOADING from LISTENING only,
\* never from INIT, RECORDING, MAINTENANCE or ERROR.
C15_UploadCheckOnlyFromListening ==
  uploadCheckFrom \in {"none", "LISTENING"}

\* C16: the error code recorded when the storage initialization fails differs
\* from the code recorded when the audio initialization fails.
C16_DistinctInitCodes ==
  (initFailureCode.storage # Unset /\ initFailureCode.audio # Unset)
    => initFailureCode.storage # initFailureCode.audio

\* C17: a call of performAdvancedVAD on a frame with fewer than VAD_SAMPLES/2
\* valid samples, or with no sample available, returns false and leaves
\* consecutiveDetections and vadTriggerCount as they were.
C17_InconclusiveFrameKeepsState ==
  [][(Len(rawHistory') = Len(rawHistory) + 1 /\ rawHistory'[Len(rawHistory')] = "-")
       => /\ ~vadResults'[Len(vadResults')]
          /\ consecutiveDetections' = consecutiveDetections
          /\ vadTriggerCount' = vadTriggerCount]_vars

\* four voiced frames, then a frame that cannot be analysed: one trigger counted
\* and one detection pending, both kept
C17_Witness ==
  /\ rawHistory = <<"T", "T", "T", "T", "-">>
  /\ ~vadResults[5]
  /\ consecutiveDetections = 1
  /\ vadTriggerCount = 1

\* C18: a call of detectVoiceActivity on a frame of sentinel values only (0, 1,
\* -1) returns false and leaves noiseFloor as it was.
C18_SentinelFrameKeepsFloor ==
  (lastDetect.call = "detectVoiceActivity" /\ SentinelOnly(lastDetect.frame))
    => (~lastDetect.detected /\ noiseFloor = lastDetect.floorBefore)

\* C19: noiseFloor never falls below VAD_NOISE_FLOOR.
C19_FloorAtLeastMinimum ==
  noiseFloor >= VAD_NOISE_FLOOR * Centi

\* the floor was raised by a calibration in a noisy room, then adapted downwards
\* by quiet frames, and clamped at the minimum by a later update
C19_Witness ==
  /\ lastDetect.call \in {"detectVoiceActivity", "updateNoiseFloor"}
  /\ lastDetect.floorBefore > VAD_NOISE_FLOOR * Centi
  /\ noiseFloor = VAD_NOISE_FLOOR * Centi

\* C20: once a recording file is closed, its header's data-size field is the
\* number of sample bytes written to it and its chunk-size field is 36 more,
\* also when the recording ended on the time cap.
C20_HeaderMatchesData ==
  (lastFile.state = "closed" /\ lastFile.writesOk)
    => /\ lastFile.subchunk2Size = lastFile.dataBytes
       /\ lastFile.chunkSize = 36 + lastFile.dataBytes

\* C21: startRecording called while a session is open returns false and leaves
\* the recording flag, the open file, bytesWritten and recordingStartTime alone.
C21_StartWhileOpenChangesNothing ==
  (lastRecorderCall.call = "startRecording" /\ lastRecorderCall.before.recording)
    => /\ ~lastRecorderCall.ret
       /\ State_AR = lastRecorderCall.before

\* a second startRecording on a session that has taken a buffer of samples
C21_Witness ==
  /\ lastRecorderCall.call = "startRecording"
  /\ lastRecorderCall.before.recording
  /\ lastRecorderCall.before.fileOpen
  /\ bytesWritten = 2 * BUFFER_SIZE
  /\ recordingStartTimeAge > 0

\* C22: between a stopRecording and the next successful startRecording every
\* continueRecording returns false and writes no byte.
C22_ContinueAfterStopFails ==
  (lastRecorderCall.call = "continueRecording" /\ lastRecorderCall.afterStop)
    => /\ ~lastRecorderCall.ret
       /\ lastRecorderCall.wrote = 0
       /\ sinkBytes = lastRecorderCall.before.sinkBytes
       /\ bytesWritten = lastRecorderCall.before.bytesWritten

\* a session that took a buffer was stopped, then a full buffer is offered
C22_Witness ==
  /\ lastRecorderCall.call = "continueRecording"
  /\ lastRecorderCall.afterStop
  /\ lastRecorderCall.before.bytesWritten = 2 * BUFFER_SIZE
  /\ lastRecorderCall.frame = <<Run(100, BUFFER_SIZE)>>

\* C23: the bytes a successful append hands to the sink are those of the input
\* samples other than 0, -1 and 1: two for each of them and none for the rest.
C23_SentinelsSkipped ==
  (lastRecorderCall.call = "continueRecording" /\ lastRecorderCall.ret)
    => lastRecorderCall.wrote
         = 2 * CountSamples(TakeValid(lastRecorderCall.frame, BUFFER_SIZE))

\* C24: every step that changes the scheduler's state leaves the time in state at
\* zero, and changeState naming the current state changes nothing.
C24_TransitionResetsClock ==
  [][/\ currentState' # currentState => stateStartTimeAge' = 0
     /\ changeState_T7(State_T7, currentState) = State_T7]_vars

\* a tick has just taken the scheduler into RECORDING and created the file
C24_Witness ==
  /\ currentState = "RECORDING"
  /\ stateStartTimeAge = 0
  /\ recordingFileOpen
  /\ wifiInitialized

\* C25: a calibration during which the microphone delivers no valid sample (read
\* errors, empty reads or sentinel values only) leaves noiseFloor at
\* VAD_NOISE_FLOOR.
C25_FailedCalibrationGivesDefault ==
  (/\ lastDetect.call = "calibrateVAD"
   /\ (SamplesIn(lastDetect.frame) = 0 \/ SentinelOnly(lastDetect.frame)))
    => noiseFloor = VAD_NOISE_FLOOR * Centi

\* C26: in the main firmware, once loop() keeps being called, a stay in ERROR leads
\* to a recovery attempt (handleErrorState calls initializeSystem) or to ERROR being
\* left, whatever millis() % 10000 was when ERROR was entered.
C26_RecoveryAttempted ==
  (happyPath /\ currentState = "ERROR")
    ~> (recoveryAttempted \/ currentState # "ERROR")
\* C27: in the Test 7 scheduler a non-zero error code (1, 2 or 3) is recorded
\* whenever currentState is ERROR, however ERROR was entered.
C27_ErrorHasCode == currentState = "ERROR" => errorCode \in {1, 2, 3}
C27_Witness == currentState = "ERROR" /\ errorCode = 3 /\ pending # {}
\* C28: in the main firmware, at the end of every call of loop() isRecording() is
\* false in every state other than RECORDING, the low-battery check included.
C28_NoSessionOutsideRecording == currentState # "RECORDING" => ~recordingActive
C30_LoudLevelKeepsFloor ==
  (/\ lastDetect.call = "updateNoiseFloor"
   /\ \/ lastDetect.ageBefore < NOISE_UPDATE_PERIOD
      \/ 2 * currentAudioLevel >= 3 * lastDetect.floorBefore)
    => noiseFloor = lastDetect.floorBefore
C30_Witness ==
  /\ lastDetect.call = "updateNoiseFloor"
  /\ lastDetect.ageBefore >= NOISE_UPDATE_PERIOD
  /\ 2 * currentAudioLevel >= 3 * lastDetect.floorBefore
  /\ lastDetect.floorBefore > VAD_NOISE_FLOOR * Centi
  /\ noiseFloor = lastDetect.floorBefore
\* what a caller sees of a stopRecording made while no session is open: the value
\* returned and isRecording() afterwards
NotRecordingAnswer ==
  LET r == stopRecording_AR([State_AR EXCEPT !.recording = FALSE], TRUE)
  IN [ret |-> r.ret, isRecording |-> r.state.recording]

\* C31: a stopRecording whose header rewrite is not taken whole returns failure,
\* leaves isRecording() false, and what its caller sees differs from what a
\* stopRecording without a session gives.
C31_HeaderFailureTold ==
  (/\ lastRecorderCall.call = "stopRecording"
   /\ lastRecorderCall.before.recording
   /\ ~lastRecorderCall.headerTaken)
    => /\ ~lastRecorderCall.ret
       /\ ~recordingActive
       /\ [ret |-> lastRecorderCall.ret, isRecording |-> recordingActive]
            # NotRecordingAnswer
\* the calls of handleUploadingState the next loop() of Test 7 can make from this
\* state when no command is typed: the state at the call, the answers, the result
UploadingCalls_T7 ==
  {[before |-> s1, in |-> in, after |-> handleCurrentState_T7(s1, in)] :
     s1 \in {[Tick_T7(State_T7, d) EXCEPT !.wifiStatus = radio] :
               d \in TickDeltas, radio \in BOOLEAN},
     in \in HandlerInputs_T7([State_T7 EXCEPT !.currentState = "UPLOADING"])}

\* C32: in Test 7 a call of handleUploadingState attempts at most one pending
\* file and leaves UPLOADING at once, for LISTENING when the file was uploaded or
\* none was pending; a file uploaded is no longer pending afterwards.
C32_OneFilePerActivation ==
  currentState = "UPLOADING" =>
    \A c \in UploadingCalls_T7 :
      LET sent == /\ c.in.dir
                  /\ c.before.pending # {}
                  /\ uploadFile_T7(c.before, c.in.readable, c.in.accepted)
      IN /\ c.after.currentState # "UPLOADING"
         /\ Cardinality(c.after.uploaded \ c.before.uploaded) <= 1
         /\ (sent \/ (c.in.dir /\ c.before.pending = {}))
              => c.after.currentState = "LISTENING"
         /\ sent => Head(Listing(c.before.pending)) \notin c.after.pending
\* C33: in the main firmware a recording is stopped on silence only when the
\* silent frames in a row span more than SILENCE_TIMEOUT_MS: a voice frame restarts
\* the count, and so does a new recording.
C33_StopOnlyAfterSilence == stoppedOnSilence => quietAge > SILENCE_TIMEOUT_MS
\* C34: in Test 10 the consecutive-detection counter is 0 whenever the scheduler
\* enters LISTENING, so raw-positive frames counted before a detour through another
\* state never count towards a later trigger.
C34_CounterClearOnEntry == entryDetections \in {Unset, 0}
\* C35: performAdvancedVAD leaves its counter at 0 on the frame where it returns
\* true, two true results have at least VAD_TRIGGER_COUNT raw-positive frames after
\* the first up to the second, and vadTriggerCount is the number of true results.
C35_TriggerResetsCounter ==
  /\ (vadResults # <<>> /\ vadResults[Len(vadResults)]) => consecutiveDetections = 0
  /\ \A i, j \in 1..Len(vadResults) :
       (i < j /\ vadResults[i] /\ vadResults[j])
         => Cardinality({k \in (i + 1)..j : rawHistory[k] = "T"}) >= VAD_TRIGGER_COUNT
  /\ vadTriggerCount = Cardinality({i \in 1..Len(vadResults) : vadResults[i]})

\* six voiced frames: the third and the sixth trigger
C35_Witness ==
  /\ Len(vadResults) = 6
  /\ vadResults[3] /\ vadResults[6]
  /\ vadTriggerCount = 2
  /\ consecutiveDetections = 0
\* C36: in the main firmware a call of loop() takes the scheduler out of ERROR only
\* if handleErrorState attempted the recovery in that call, or for LOW_BATTERY: the
\* upload check never moves it from ERROR to UPLOADING.
C36_ErrorLeftByRecoveryOnly ==
  [][(currentState = "ERROR" /\ currentState' \notin {"ERROR", "LOW_BATTERY"})
       => recoveryAttempted']_vars
\* C37: in Test 7, on an entry into INIT the steps that succeeded before are not
\* run again, and with all three done the first call moves to LISTENING; a step that
\* failed before is run again: SD.begin, I2S.begin, and the WiFi connection when
\* the earlier attempt did not connect.
C37_InitLatched ==
  currentState = "INIT" =>
    LET s == State_T7
        done == s.sdInitialized /\ s.audioInitialized /\ s.wifiInitialized
        refused == [Answers EXCEPT !.sd = FALSE, !.audio = FALSE, !.wifi = FALSE]
    IN /\ (done /\ s.wifiConnected)
            => handleInitState_T7(s, refused) = changeState_T7(s, "LISTENING")
       /\ ~s.sdInitialized
            => handleInitState_T7(s, [Answers EXCEPT !.sd = FALSE]).currentState = "ERROR"
       /\ (s.sdInitialized /\ ~s.audioInitialized)
            => handleInitState_T7(s, [Answers EXCEPT !.audio = FALSE]).currentState
                 = "ERROR"
       /\ (done /\ ~s.wifiConnected) => handleInitState_T7(s, Answers).wifiConnected
\* the calls of handleListeningState the next loop() of Test 7 can make from this
\* state when no command is typed
ListeningCalls_T7 ==
  {[before |-> s1, in |-> in, after |-> handleCurrentState_T7(s1, in)] :
     s1 \in {[Tick_T7(State_T7, d) EXCEPT !.wifiStatus = radio] :
               d \in TickDeltas, radio \in BOOLEAN},
     in \in HandlerInputs_T7([State_T7 EXCEPT !.currentState = "LISTENING",
                                              !.stateStartTimeAge = UPLOAD_IDLE_T7 + 1])}

\* C38: in Test 7 a call of handleListeningState in which the VAD reports voice
\* ends in RECORDING: the upload check of the same call does not replace it by
\* UPLOADING, whatever the time in LISTENING, the pending files and the connection.
C38_VoiceWinsOverUpload ==
  currentState = "LISTENING" =>
    \A c \in ListeningCalls_T7 :
      performVAD(c.in.frame) => c.after.currentState = "RECORDING"

\* LISTENING for more than 30 s with a file pending and the connection up: the
\* upload check of the next call passes if no voice is heard
C38_Witness ==
  /\ currentState = "LISTENING"
  /\ stateStartTimeAge > UPLOAD_IDLE_T7
  /\ pending # {}
  /\ wifiConnected
  /\ \E c \in ListeningCalls_T7 : performVAD(c.in.frame) /\ c.in.dir
  /\ \E c \in ListeningCalls_T7 : c.after.currentState = "UPLOADING"
\* the LED mode that belongs to a scheduler state of the main firmware
LedOf(state) ==
  CASE state = "LISTENING" -> "LED_LISTENING"
    [] state = "RECORDING" -> "LED_RECORDING"
    [] state = "UPLOADING" -> "LED_UPLOADING"
    [] state = "LOW_BATTERY" -> "LED_LOW_BATTERY"
    [] state = "ERROR" -> "LED_ERROR"
    [] OTHER -> "LED_OFF"

\* C39: in the main firmware, after setup() and after every call of loop() the LED
\* mode is the one of the scheduler state, in LISTENING, RECORDING, UPLOADING,
\* LOW_BATTERY and ERROR.
C39_LedMatchesState == currentState # "IDLE" => ledMode = LedOf(currentState)
C39_Witness ==
  /\ currentState = "ERROR"
  /\ ledMode = "LED_ERROR"
  /\ recoveryAttempted
  /\ pending # {}
====
